---- MODULE Spec2Model ----
(***************************************************************************)
(* A model of the design-pattern examples of low-level-design-java-cpp.    *)
(* Each example is an independent program; one specification per example   *)
(* family:                                                                 *)
(*   SpecSingleton   the Singleton variants, called by several threads     *)
(*   SpecShapeFactory the C++ ShapeFactory                                  *)
(*   SpecPrototype   the EnemyFactory prototype registry (C++ and Java)    *)
(***************************************************************************)
EXTENDS Integers, Sequences, FiniteSets, TLC

(***************************************************************************)
(* Bounds                                                                  *)
(***************************************************************************)
NumThreads == 2
MaxCalls == 2
MaxShapeCalls == 3
MaxClones == 2
MaxFlyCalls == 4
MaxCoord == 1
MaxDisplays == 2
MaxDownloads == 3
MaxBooks == 2
MaxSetters == 2
MaxComputers == 2
MaxWraps == 3
MaxAdds == 4
MaxDepth == 3
MaxRenders == 4
MaxBirds == 3
MaxJavaShapeCalls == 3
MaxFacadeCalls == 4

\* for (int i = 0; i < 10; i++)
Iterations == 10

Null == 0
NoThread == 0
Threads == 1..NumThreads
ObjIds == 1..(NumThreads + 1)

VARIABLES
    program,     \* which singleton class the running program uses
    instance,    \* the class's static instance pointer (Null = nullptr)
    heap,        \* per object: "free", "raw" (allocated), "live", "dead"
    mtx,         \* the class's static std::mutex: its owner, or NoThread
    guard,       \* initialisation guard of the function-local static
    pc,          \* each thread's position inside getInstance
    tmp,         \* each thread's pointer inside a new-expression
    calls,       \* getInstance calls each thread has started
    results,     \* what the calls returned
    overlap,     \* two getInstance calls have been in progress at once
    shapes,      \* ShapeFactory client: the getShape calls made, with results
    lang,        \* prototype example: which version runs ("cpp" or "java")
    prototypes,  \* EnemyFactory::prototypes: key -> the prototype object
    enemies,     \* the Enemy objects: prototypes and clones
    clones,      \* the clones the client holds
    lastCall,    \* the last EnemyFactory / Enemy operation and its outcome
    flyMap,      \* CharacterFactory::characters / ShapeFactory.circleMap
    flyCount,    \* flyweight objects created so far
    flyCalls,    \* the getCharacter / getCircle calls made, with results
    runI,        \* FlyweightClient.main: the loop counter i of each run
    runMap,      \* ShapeFactory.circleMap of each run
    runCount,    \* Circle objects created in each run
    runOut,      \* console lines of each run, without the coordinates
    runXY,       \* coordinates printed by the latest draw of each run
    docBuilt,    \* DocumentProxy example: which proxies main has constructed
    docFile,     \* DocumentProxy::filename of each proxy
    docRole,     \* DocumentProxy::userRole of each proxy
    realDocument, \* DocumentProxy::realDocument (Null = nullptr)
    docCount,    \* RealDocument objects constructed so far
    docCalls,    \* display() calls made on each proxy
    docOut,      \* console lines printed by the calls on each proxy
    vidBuilt,    \* VideoDownloaderProxy example: the proxies constructed
    hasAccess,   \* VideoDownloaderProxy.hasAccess of each proxy
    cache,       \* VideoDownloaderProxy.cache of each proxy
    vidReq,      \* URLs passed to downloadVideo of each proxy, in order
    realCalls,   \* URLs each proxy passed to RealVideoDownloader
    vidOut,      \* console lines printed by the calls on each proxy
    books,       \* Library::books
    iterOf,      \* iterator example: the iterator object each handle holds
    iterIndex,   \* BookIterator::index of each iterator object
    iterRead,    \* the books next() has returned through each handle
    iterHas,     \* what the latest hasNext() on each handle returned
    iterSeen,    \* size of the library at that hasNext() call
    iterLoop,    \* next() was only called after hasNext() returned true
    iterThrew,   \* a next() call on the handle threw out_of_range
    iterLast,    \* the last Library / Iterator operation
    builder,     \* builder example: the Computer::Builder object
    builderArgs, \* the arguments its constructor was called with
    builderOps,  \* the setter calls made on it, in order
    computers,   \* the Computer objects build() has returned
    builtAt,     \* number of setter calls made before each build()
    printed,     \* the line printed by the latest printSpecs()
    bevBase,     \* decorator example: the concrete component at the core
    bevWraps,    \* the decorators wrapped around it, innermost first
    bevAt,       \* the chain at the latest getDescription() / cost() calls
    bevDesc,     \* what the latest getDescription() returned
    bevCost,     \* what the latest cost() / getCost() returned
    compLang,    \* composite example: which version runs ("cpp" or "java")
    children,    \* Group::children / Folder.components of each group
    compPhase,   \* main: building the tree, inside draw(), after it
    compRoot,    \* the node main calls draw() / showDetails() on
    compStack,   \* active Group::draw calls: the group, the next child
    compOut,     \* console lines printed so far
    guiFactory,  \* abstract factory example: the factory each Application got
    guiButton,   \* Application::button (the class of the object held)
    guiCheckbox, \* Application::checkbox (the class of the object held)
    guiOut,      \* console lines printed by the renderUI calls
    flock,       \* LSP example: the classes of the Bird objects of a client
    flyState,    \* the client's loop: building, looping, completed, thrown
    flyPos,      \* how many fly() calls of the loop have returned normally
    flyOut,      \* console lines printed by the fly() calls
    flyError,    \* what() of the exception that left the loop
    jshapes,     \* FactoryPatternDemo (Java): the getShape calls, with results
    facLang,     \* HomeTheaterFacade: which listing runs, "none" before
    facCalls     \* the facade calls so far, each with its subsystem steps

varsSingleton ==
    <<program, instance, heap, mtx, guard, pc, tmp, calls, results, overlap>>

varsShape == <<shapes>>

varsProto == <<lang, prototypes, enemies, clones, lastCall>>

varsFly == <<flyMap, flyCount, flyCalls>>

varsFlyClient == <<runI, runMap, runCount, runOut, runXY>>

varsDocProxy ==
    <<docBuilt, docFile, docRole, realDocument, docCount, docCalls, docOut>>

varsVideo == <<vidBuilt, hasAccess, cache, vidReq, realCalls, vidOut>>

varsIter ==
    <<books, iterOf, iterIndex, iterRead, iterHas, iterSeen, iterLoop,
      iterThrew, iterLast>>

varsBuilder ==
    <<builder, builderArgs, builderOps, computers, builtAt, printed>>

varsDeco == <<bevBase, bevWraps, bevAt, bevDesc, bevCost>>

varsComposite ==
    <<compLang, children, compPhase, compRoot, compStack, compOut>>

varsGui == <<guiFactory, guiButton, guiCheckbox, guiOut>>

varsBird == <<flock, flyState, flyPos, flyOut, flyError>>

varsJShape == <<jshapes>>

varsFacade == <<facLang, facCalls>>

vars ==
    <<varsSingleton, varsShape, varsProto, varsFly, varsFlyClient,
      varsDocProxy, varsVideo, varsIter, varsBuilder, varsDeco, varsComposite,
      varsGui, varsBird, varsJShape, varsFacade>>

notSingleton ==
    <<varsShape, varsProto, varsFly, varsFlyClient, varsDocProxy, varsVideo,
      varsIter, varsBuilder, varsDeco, varsComposite, varsGui, varsBird,
      varsJShape, varsFacade>>

notShape ==
    <<varsSingleton, varsProto, varsFly, varsFlyClient, varsDocProxy,
      varsVideo, varsIter, varsBuilder, varsDeco, varsComposite, varsGui,
      varsBird, varsJShape, varsFacade>>

notProto ==
    <<varsSingleton, varsShape, varsFly, varsFlyClient, varsDocProxy,
      varsVideo, varsIter, varsBuilder, varsDeco, varsComposite, varsGui,
      varsBird, varsJShape, varsFacade>>

notFly ==
    <<varsSingleton, varsShape, varsProto, varsFlyClient, varsDocProxy,
      varsVideo, varsIter, varsBuilder, varsDeco, varsComposite, varsGui,
      varsBird, varsJShape, varsFacade>>

notFlyClient ==
    <<varsSingleton, varsShape, varsProto, varsFly, varsDocProxy, varsVideo,
      varsIter, varsBuilder, varsDeco, varsComposite, varsGui, varsBird,
      varsJShape, varsFacade>>

notDocProxy ==
    <<varsSingleton, varsShape, varsProto, varsFly, varsFlyClient,
      varsVideo, varsIter, varsBuilder, varsDeco, varsComposite, varsGui,
      varsBird, varsJShape, varsFacade>>

notVideo ==
    <<varsSingleton, varsShape, varsProto, varsFly, varsFlyClient,
      varsDocProxy, varsIter, varsBuilder, varsDeco, varsComposite, varsGui,
      varsBird, varsJShape, varsFacade>>

notIter ==
    <<varsSingleton, varsShape, varsProto, varsFly, varsFlyClient,
      varsDocProxy, varsVideo, varsBuilder, varsDeco, varsComposite, varsGui,
      varsBird, varsJShape, varsFacade>>

notBuilder ==
    <<varsSingleton, varsShape, varsProto, varsFly, varsFlyClient,
      varsDocProxy, varsVideo, varsIter, varsDeco, varsComposite, varsGui,
      varsBird, varsJShape, varsFacade>>

notDeco ==
    <<varsSingleton, varsShape, varsProto, varsFly, varsFlyClient,
      varsDocProxy, varsVideo, varsIter, varsBuilder, varsComposite, varsGui,
      varsBird, varsJShape, varsFacade>>

notComposite ==
    <<varsSingleton, varsShape, varsProto, varsFly, varsFlyClient,
      varsDocProxy, varsVideo, varsIter, varsBuilder, varsDeco, varsGui,
      varsBird, varsJShape, varsFacade>>

notGui ==
    <<varsSingleton, varsShape, varsProto, varsFly, varsFlyClient,
      varsDocProxy, varsVideo, varsIter, varsBuilder, varsDeco, varsComposite,
      varsBird, varsJShape, varsFacade>>

notBird ==
    <<varsSingleton, varsShape, varsProto, varsFly, varsFlyClient,
      varsDocProxy, varsVideo, varsIter, varsBuilder, varsDeco, varsComposite,
      varsGui, varsJShape, varsFacade>>

notJShape ==
    <<varsSingleton, varsShape, varsProto, varsFly, varsFlyClient,
      varsDocProxy, varsVideo, varsIter, varsBuilder, varsDeco, varsComposite,
      varsGui, varsBird, varsFacade>>

notFacade ==
    <<varsSingleton, varsShape, varsProto, varsFly, varsFlyClient,
      varsDocProxy, varsVideo, varsIter, varsBuilder, varsDeco, varsComposite,
      varsGui, varsBird, varsJShape>>

(***************************************************************************)
(* Singleton variants                                                      *)
(***************************************************************************)
Programs ==
    {"Eager", "Lazy", "ThreadSafe", "DCL", "DCLJava", "Meyers", "Smart"}

LazyPrograms == {"Lazy", "ThreadSafe", "DCL", "DCLJava", "Meyers"}

Created == {i \in ObjIds : heap[i] # "free"}

FreeIds == {i \in ObjIds : heap[i] = "free"}

NextFree == CHOOSE i \in FreeIds : \A j \in FreeIds : i <= j

\* The static definition of the instance member: the eager variant defines
\* the object itself, the others a null pointer.
InitialInstanceEager(p) == 1

InitialInstance(p) == IF p = "Eager" THEN 1 ELSE Null

SingletonInit ==
    /\ program = "None"
    /\ instance = Null
    /\ heap = [i \in ObjIds |-> "free"]
    /\ mtx = NoThread
    /\ guard = "uninit"
    /\ pc = [t \in Threads |-> "idle"]
    /\ tmp = [t \in Threads |-> Null]
    /\ calls = [t \in Threads |-> 0]
    /\ results = {}
    /\ overlap = FALSE

\* Program start: static initialisation of the class's members.
Start(p) ==
    /\ program = "None"
    /\ program' = p
    /\ instance' = InitialInstance(p)
    /\ heap' = [i \in ObjIds |->
                  IF i = InitialInstance(p) THEN "live" ELSE "free"]
    /\ UNCHANGED <<notSingleton, mtx, guard, pc, tmp, calls, results,
                   overlap>>

Entry(p) ==
    CASE p = "Eager" -> "ret"
      [] p = "Lazy" -> "check"
      [] p = "ThreadSafe" -> "lock"
      [] p = "DCL" -> "check1"
      [] p = "DCLJava" -> "check1"
      [] p = "Meyers" -> "static"
      [] p = "Smart" -> "check"

\* A thread calls getInstance.
Call(t) ==
    /\ program \in Programs
    /\ pc[t] = "idle"
    /\ calls[t] < MaxCalls
    /\ calls' = [calls EXCEPT ![t] = @ + 1]
    /\ pc' = [pc EXCEPT ![t] = Entry(program)]
    /\ overlap' = (overlap \/ \E u \in Threads \ {t} : pc[u] # "idle")
    /\ UNCHANGED <<notSingleton, program, instance, heap, mtx, guard, tmp,
                   results>>

\* return instance; the caller receives the pointer currently stored.
Return(t) ==
    /\ results' = results \cup
          {[thread |-> t, ptr |-> instance,
            complete |-> (instance # Null /\ heap[instance] = "live")]}
    /\ pc' = [pc EXCEPT ![t] = "idle"]

\* new T(): allocate, run the constructor, store the pointer.
NewInstance ==
    /\ FreeIds # {}
    /\ heap' = [heap EXCEPT ![NextFree] = "live"]
    /\ instance' = NextFree

---------------------------------------------------------------------------
\* EagerSingleton::getInstance
Eager_return(t) ==
    /\ program = "Eager" /\ pc[t] = "ret"
    /\ Return(t)
    /\ UNCHANGED <<notSingleton, program, instance, heap, mtx, guard, tmp,
                   calls, overlap>>

---------------------------------------------------------------------------
\* LazySingleton::getInstance
Lazy_isNullAlways == TRUE

Lazy_isNull == instance = Null

Lazy_check(t) ==
    /\ program = "Lazy" /\ pc[t] = "check"
    /\ pc' = [pc EXCEPT ![t] = IF Lazy_isNull THEN "new" ELSE "ret"]
    /\ UNCHANGED <<notSingleton, program, instance, heap, mtx, guard, tmp,
                   calls, results, overlap>>

Lazy_new(t) ==
    /\ program = "Lazy" /\ pc[t] = "new"
    /\ NewInstance
    /\ pc' = [pc EXCEPT ![t] = "ret"]
    /\ UNCHANGED <<notSingleton, program, mtx, guard, tmp, calls, results,
                   overlap>>

Lazy_return(t) ==
    /\ program = "Lazy" /\ pc[t] = "ret"
    /\ Return(t)
    /\ UNCHANGED <<notSingleton, program, instance, heap, mtx, guard, tmp,
                   calls, overlap>>

---------------------------------------------------------------------------
\* ThreadSafeSingleton::getInstance (C++ std::lock_guard, Java synchronized)
ThreadSafe_mutexFreeAlways == TRUE

ThreadSafe_mutexFree == mtx = NoThread

ThreadSafe_lock(t) ==
    /\ program = "ThreadSafe" /\ pc[t] = "lock"
    /\ ThreadSafe_mutexFree
    /\ mtx' = t
    /\ pc' = [pc EXCEPT ![t] = "check"]
    /\ UNCHANGED <<notSingleton, program, instance, heap, guard, tmp, calls,
                   results, overlap>>

ThreadSafe_check(t) ==
    /\ program = "ThreadSafe" /\ pc[t] = "check"
    /\ pc' = [pc EXCEPT ![t] = IF instance = Null THEN "new" ELSE "ret"]
    /\ UNCHANGED <<notSingleton, program, instance, heap, mtx, guard, tmp,
                   calls, results, overlap>>

ThreadSafe_new(t) ==
    /\ program = "ThreadSafe" /\ pc[t] = "new"
    /\ NewInstance
    /\ pc' = [pc EXCEPT ![t] = "ret"]
    /\ UNCHANGED <<notSingleton, program, mtx, guard, tmp, calls, results,
                   overlap>>

\* A return that leaves the mutex locked.
ThreadSafe_returnLocked(t) ==
    /\ program = "ThreadSafe" /\ pc[t] = "ret"
    /\ Return(t)
    /\ UNCHANGED <<notSingleton, program, instance, heap, mtx, guard, tmp,
                   calls, overlap>>

\* return instance, then the lock_guard's destructor unlocks.
ThreadSafe_return(t) ==
    /\ program = "ThreadSafe" /\ pc[t] = "ret"
    /\ Return(t)
    /\ mtx' = NoThread
    /\ UNCHANGED <<notSingleton, program, instance, heap, guard, tmp, calls,
                   overlap>>

---------------------------------------------------------------------------
\* DCLSingleton::getInstance.  In the C++ class instance is a plain pointer,
\* read outside the lock while another thread may write it: the store of the
\* pointer may become visible before the constructor has run.  In the Java
\* class instance is volatile: the store follows the constructor.
PublishesAfterConstruction(p) == p = "DCLJava"

DCL_mutexFree == mtx = NoThread

DCL_secondCheckAlways == TRUE

DCL_secondCheck == instance = Null

\* A first check that always goes on to the lock, as ThreadSafeSingleton.
DCL_check1Locking(t) ==
    /\ program \in {"DCL", "DCLJava"} /\ pc[t] = "check1"
    /\ pc' = [pc EXCEPT ![t] = "lock"]
    /\ UNCHANGED <<notSingleton, program, instance, heap, mtx, guard, tmp,
                   calls, results, overlap>>

\* if (instance == nullptr), outside the lock
DCL_check1(t) ==
    /\ program \in {"DCL", "DCLJava"} /\ pc[t] = "check1"
    /\ pc' = [pc EXCEPT ![t] = IF instance = Null THEN "lock" ELSE "ret"]
    /\ UNCHANGED <<notSingleton, program, instance, heap, mtx, guard, tmp,
                   calls, results, overlap>>

DCL_lock(t) ==
    /\ program \in {"DCL", "DCLJava"} /\ pc[t] = "lock"
    /\ DCL_mutexFree
    /\ mtx' = t
    /\ pc' = [pc EXCEPT ![t] = "check2"]
    /\ UNCHANGED <<notSingleton, program, instance, heap, guard, tmp, calls,
                   results, overlap>>

DCL_check2(t) ==
    /\ program \in {"DCL", "DCLJava"} /\ pc[t] = "check2"
    /\ pc' = [pc EXCEPT ![t] = IF DCL_secondCheck THEN "new" ELSE "unlock"]
    /\ UNCHANGED <<notSingleton, program, instance, heap, mtx, guard, tmp,
                   calls, results, overlap>>

\* operator new: the storage of the object.
DCL_alloc(t) ==
    /\ program \in {"DCL", "DCLJava"} /\ pc[t] = "new"
    /\ FreeIds # {}
    /\ heap' = [heap EXCEPT ![NextFree] = "raw"]
    /\ tmp' = [tmp EXCEPT ![t] = NextFree]
    /\ \/ pc' = [pc EXCEPT ![t] = "ctor"]
       \/ /\ ~PublishesAfterConstruction(program)
          /\ pc' = [pc EXCEPT ![t] = "store_early"]
    /\ UNCHANGED <<notSingleton, program, instance, mtx, guard, calls,
                   results, overlap>>

\* The constructor runs.
DCL_construct(t) ==
    /\ program \in {"DCL", "DCLJava"} /\ pc[t] \in {"ctor", "ctor_late"}
    /\ heap' = [heap EXCEPT ![tmp[t]] = "live"]
    /\ pc' = [pc EXCEPT ![t] = IF pc[t] = "ctor" THEN "store" ELSE "unlock"]
    /\ UNCHANGED <<notSingleton, program, instance, mtx, guard, tmp, calls,
                   results, overlap>>

\* instance = <the new object>
DCL_store(t) ==
    /\ program \in {"DCL", "DCLJava"} /\ pc[t] \in {"store", "store_early"}
    /\ instance' = tmp[t]
    /\ pc' = [pc EXCEPT ![t] =
                 IF pc[t] = "store" THEN "unlock" ELSE "ctor_late"]
    /\ UNCHANGED <<notSingleton, program, heap, mtx, guard, tmp, calls,
                   results, overlap>>

\* End of the if block: the lock_guard's destructor unlocks.
DCL_unlock(t) ==
    /\ program \in {"DCL", "DCLJava"} /\ pc[t] = "unlock"
    /\ mtx' = NoThread
    /\ pc' = [pc EXCEPT ![t] = "ret"]
    /\ UNCHANGED <<notSingleton, program, instance, heap, guard, tmp, calls,
                   results, overlap>>

DCL_return(t) ==
    /\ program \in {"DCL", "DCLJava"} /\ pc[t] = "ret"
    /\ Return(t)
    /\ UNCHANGED <<notSingleton, program, instance, heap, mtx, guard, tmp,
                   calls, overlap>>

---------------------------------------------------------------------------
\* MeyersSingleton::getInstance: a function-local static.  The first thread
\* through the declaration initialises it; a thread that arrives during the
\* initialisation waits for it to complete.
Meyers_mustInitUnguarded == guard # "done"

Meyers_mustInit == guard = "uninit"

Meyers_static(t) ==
    /\ program = "Meyers" /\ pc[t] = "static"
    /\ \/ /\ Meyers_mustInit
          /\ guard' = "busy"
          /\ pc' = [pc EXCEPT ![t] = "ctor"]
       \/ /\ guard = "done"
          /\ guard' = guard
          /\ pc' = [pc EXCEPT ![t] = "ret"]
    /\ UNCHANGED <<notSingleton, program, instance, heap, mtx, tmp, calls,
                   results, overlap>>

Meyers_construct(t) ==
    /\ program = "Meyers" /\ pc[t] = "ctor"
    /\ NewInstance
    /\ guard' = "done"
    /\ pc' = [pc EXCEPT ![t] = "ret"]
    /\ UNCHANGED <<notSingleton, program, mtx, tmp, calls, results,
                   overlap>>

Meyers_return(t) ==
    /\ program = "Meyers" /\ pc[t] = "ret"
    /\ Return(t)
    /\ UNCHANGED <<notSingleton, program, instance, heap, mtx, guard, tmp,
                   calls, overlap>>

---------------------------------------------------------------------------
\* SmartSingleton::getInstance: instance is a std::unique_ptr.
Smart_isNullAlways == TRUE

Smart_isNull == instance = Null

Smart_check(t) ==
    /\ program = "Smart" /\ pc[t] = "check"
    /\ pc' = [pc EXCEPT ![t] = IF Smart_isNull THEN "make" ELSE "ret"]
    /\ UNCHANGED <<notSingleton, program, instance, heap, mtx, guard, tmp,
                   calls, results, overlap>>

\* instance = std::make_unique<SmartSingleton>(): the unique_ptr takes the
\* new object and deletes the one it owned.
Smart_make(t) ==
    /\ program = "Smart" /\ pc[t] = "make"
    /\ FreeIds # {}
    /\ heap' = [i \in ObjIds |->
                  IF i = NextFree THEN "live"
                  ELSE IF i = instance THEN "dead"
                  ELSE heap[i]]
    /\ instance' = NextFree
    /\ pc' = [pc EXCEPT ![t] = "ret"]
    /\ UNCHANGED <<notSingleton, program, mtx, guard, tmp, calls, results,
                   overlap>>

\* return instance.get()
Smart_return(t) ==
    /\ program = "Smart" /\ pc[t] = "ret"
    /\ Return(t)
    /\ UNCHANGED <<notSingleton, program, instance, heap, mtx, guard, tmp,
                   calls, overlap>>

(***************************************************************************)
(* Strings: sequences of characters, so that comparison and case           *)
(* conversion work on the characters.                                      *)
(***************************************************************************)
UpperCase ==
    <<"A", "B", "C", "D", "E", "F", "G", "H", "I", "J", "K", "L", "M",
      "N", "O", "P", "Q", "R", "S", "T", "U", "V", "W", "X", "Y", "Z">>

LowerCase ==
    <<"a", "b", "c", "d", "e", "f", "g", "h", "i", "j", "k", "l", "m",
      "n", "o", "p", "q", "r", "s", "t", "u", "v", "w", "x", "y", "z">>

\* Character.toLowerCase
toLower(c) ==
    IF \E i \in DOMAIN UpperCase : UpperCase[i] = c
    THEN LowerCase[CHOOSE i \in DOMAIN UpperCase : UpperCase[i] = c]
    ELSE c

\* String.toLowerCase
toLowerCase(s) == [i \in 1..Len(s) |-> toLower(s[i])]

\* std::string operator==: the same characters, case included.
StrEqIgnoreCase(a, b) == toLowerCase(a) = toLowerCase(b)

StrEq(a, b) == a = b

S_circle == <<"c", "i", "r", "c", "l", "e">>
S_rectangle == <<"r", "e", "c", "t", "a", "n", "g", "l", "e">>
S_square == <<"s", "q", "u", "a", "r", "e">>
S_Circle == <<"C", "i", "r", "c", "l", "e">>
S_SQUARE == <<"S", "Q", "U", "A", "R", "E">>
S_triangle == <<"t", "r", "i", "a", "n", "g", "l", "e">>
S_circles == <<"c", "i", "r", "c", "l", "e", "s">>
S_empty == <<>>

(***************************************************************************)
(* ShapeFactory (C++)                                                      *)
(***************************************************************************)
ShapeKeys ==
    {S_circle, S_rectangle, S_square, S_Circle, S_SQUARE, S_triangle,
     S_circles, S_empty}

\* ShapeFactory::getShape: the class of the object returned, "nullptr" for
\* no object.
getShape(shapeType) ==
    IF StrEq(shapeType, S_circle) THEN "Circle"
    ELSE IF StrEq(shapeType, S_rectangle) THEN "Rectangle"
    ELSE IF StrEq(shapeType, S_square) THEN "Square"
    ELSE "nullptr"

ShapeInit == shapes = <<>>

\* The client calls factory.getShape(k) and keeps the result.
ShapeFactory_getShape(k) ==
    /\ Len(shapes) < MaxShapeCalls
    /\ shapes' = Append(shapes, [key |-> k, shape |-> getShape(k)])
    /\ UNCHANGED notShape

(***************************************************************************)
(* Prototype registry: EnemyFactory (C++ and Java)                         *)
(***************************************************************************)
S_orc == <<"o", "r", "c">>
S_troll == <<"t", "r", "o", "l", "l">>
S_ORC == <<"O", "R", "C">>
S_Troll == <<"T", "r", "o", "l", "l">>
S_goblin == <<"g", "o", "b", "l", "i", "n">>

EnemyKeys == {S_orc, S_troll, S_ORC, S_Troll, S_goblin, S_empty}

EnemyIds == 1..(MaxClones + 3)

NoEnemy == [cls |-> "none", name |-> "", weapon |-> "", health |-> 0]

OrcPrototype ==
    [cls |-> "Orc", name |-> "Orc Warrior", weapon |-> "Axe", health |-> 100]

TrollPrototype ==
    [cls |-> "Troll", name |-> "Troll Brute", weapon |-> "Club",
     health |-> 150]

\* The values the client sets on its clones.
NewNames == {"Orc Grunt"}

NewHealths == {80}

EmptyMap == [k \in {} |-> Null]

Put(map, k, v) == [x \in DOMAIN map \cup {k} |-> IF x = k THEN v ELSE map[x]]

Values(map) == {map[k] : k \in DOMAIN map}

FreeEnemy(h) ==
    CHOOSE i \in EnemyIds :
        /\ h[i] = NoEnemy
        /\ \A j \in EnemyIds : h[j] = NoEnemy => i <= j

NoCall ==
    [op |-> "none", type |-> <<>>, isNull |-> FALSE, result |-> Null,
     threw |-> FALSE, reg |-> EmptyMap]

ProtoInit ==
    /\ lang = "none"
    /\ prototypes = EmptyMap
    /\ enemies = [i \in EnemyIds |-> NoEnemy]
    /\ clones = {}
    /\ lastCall = NoCall

\* Program start.  C++: the static map is empty until initialize() is
\* called.  Java: the class's static block registers the two prototypes.
GameSimulator_start(l) ==
    /\ lang = "none"
    /\ lang' = l
    /\ IF l = "java"
       THEN /\ prototypes' = Put(Put(EmptyMap, S_orc, 1), S_troll, 2)
            /\ enemies' = [i \in EnemyIds |->
                             IF i = 1 THEN OrcPrototype
                             ELSE IF i = 2 THEN TrollPrototype
                             ELSE NoEnemy]
       ELSE UNCHANGED <<prototypes, enemies>>
    /\ UNCHANGED <<notProto, clones, lastCall>>

\* prototypes[key] = std::make_unique<T>(...): the new object is made, then
\* the map's unique_ptr takes it and deletes the object it owned.
AssignPrototype(st, key, rec) ==
    LET id == FreeEnemy(st.enemies)
        old == IF key \in DOMAIN st.prototypes
               THEN st.prototypes[key] ELSE Null
    IN  [enemies |-> [i \in EnemyIds |->
                        IF i = id THEN rec
                        ELSE IF i = old THEN NoEnemy
                        ELSE st.enemies[i]],
         prototypes |-> Put(st.prototypes, key, id)]

\* EnemyFactory::initialize (C++)
EnemyFactory_initialize ==
    /\ lang = "cpp"
    /\ LET s0 == [enemies |-> enemies, prototypes |-> prototypes]
           s1 == AssignPrototype(s0, S_orc, OrcPrototype)
           s2 == AssignPrototype(s1, S_troll, TrollPrototype)
       IN  /\ enemies' = s2.enemies
           /\ prototypes' = s2.prototypes
    /\ lastCall' = [NoCall EXCEPT !.op = "initialize"]
    /\ UNCHANGED <<notProto, lang, clones>>

\* clone(): the object the caller receives.  C++: std::make_unique<T>(*this),
\* Java: super.clone(); both a new object with the prototype's field values.
CloneTargetShared(proto, fresh) == proto

CloneTarget(proto, fresh) == fresh

\* The lookup found the prototype under `key`: return its clone.
ReturnClone(type, key) ==
    /\ Cardinality(clones) < MaxClones
    /\ LET id == CloneTarget(prototypes[key], FreeEnemy(enemies))
       IN  /\ enemies' = [enemies EXCEPT ![id] = enemies[prototypes[key]]]
           /\ clones' = clones \cup {id}
           /\ lastCall' = [op |-> "getEnemy", type |-> type,
                           isNull |-> FALSE, result |-> id, threw |-> FALSE,
                           reg |-> prototypes]
    /\ UNCHANGED <<notProto, lang, prototypes>>

\* The lookup found nothing: return nullptr / null.
ReturnNull(type) ==
    /\ lastCall' = [op |-> "getEnemy", type |-> type, isNull |-> FALSE,
                    result |-> Null, threw |-> FALSE, reg |-> prototypes]
    /\ UNCHANGED <<notProto, lang, prototypes, enemies, clones>>

\* EnemyFactory::getEnemy (C++): prototypes.find(type)
EnemyFactory_getEnemy(type) ==
    /\ lang = "cpp"
    /\ IF type \in DOMAIN prototypes
       THEN ReturnClone(type, type)
       ELSE ReturnNull(type)

\* The key the Java factory looks up: type.toLowerCase()
JavaLookupKeyExact(type) == type

JavaLookupKey(type) == toLowerCase(type)

\* EnemyFactory.getEnemy (Java): prototypes.get(type.toLowerCase())
EnemyFactoryJava_getEnemy(type) ==
    /\ lang = "java"
    /\ IF JavaLookupKey(type) \in DOMAIN prototypes
       THEN ReturnClone(type, JavaLookupKey(type))
       ELSE ReturnNull(type)

\* EnemyFactory.getEnemy(null) (Java): type.toLowerCase() throws
\* NullPointerException.
EnemyFactoryJava_getEnemyNull ==
    /\ lang = "java"
    /\ lastCall' = [op |-> "getEnemy", type |-> <<>>, isNull |-> TRUE,
                    result |-> Null, threw |-> TRUE, reg |-> prototypes]
    /\ UNCHANGED <<notProto, lang, prototypes, enemies, clones>>

\* Orc::setName / Troll::setName on a clone the client holds
Enemy_setName(c, newName) ==
    /\ c \in clones
    /\ enemies' = [enemies EXCEPT ![c].name = newName]
    /\ lastCall' = [NoCall EXCEPT !.op = "setName", !.result = c]
    /\ UNCHANGED <<notProto, lang, prototypes, clones>>

\* Orc::setHealth / Troll::setHealth on a clone the client holds
Enemy_setHealth(c, newHealth) ==
    /\ c \in clones
    /\ enemies' = [enemies EXCEPT ![c].health = newHealth]
    /\ lastCall' = [NoCall EXCEPT !.op = "setHealth", !.result = c]
    /\ UNCHANGED <<notProto, lang, prototypes, clones>>
(***************************************************************************)
(* Flyweight: CharacterFactory (C++), ShapeFactory.getCircle (Java)        *)
(***************************************************************************)
FlyKeys == {"a", "b", "Red", "Blue"}

FlyInit ==
    /\ flyMap = EmptyMap
    /\ flyCount = 0
    /\ flyCalls = <<>>

\* characters.find(c) == characters.end() / circleMap.get(color) == null
FlyweightMissingAlways(map, key) == TRUE

FlyweightMissing(map, key) == key \notin DOMAIN map

\* The factory after a request for `key`: a missing flyweight is created and
\* stored under its key; the object stored under the key is returned.
FlyweightLookup(map, count, key) ==
    LET create == FlyweightMissing(map, key)
        after == IF create THEN Put(map, key, count + 1) ELSE map
    IN  [map |-> after,
         count |-> IF create THEN count + 1 ELSE count,
         created |-> create,
         obj |-> after[key]]

\* CharacterFactory::getCharacter / ShapeFactory.getCircle
CharacterFactory_getCharacter(c) ==
    /\ Len(flyCalls) < MaxFlyCalls
    /\ LET r == FlyweightLookup(flyMap, flyCount, c)
       IN  /\ flyMap' = r.map
           /\ flyCount' = r.count
           /\ flyCalls' = Append(flyCalls, [key |-> c, obj |-> r.obj])
    /\ UNCHANGED notFly

(***************************************************************************)
(* Flyweight client (Java): FlyweightClient.main, two runs side by side    *)
(***************************************************************************)
\* Two executions of the same program; they share nothing.
Runs == 1..2

\* (int) (Math.random() * 100) is one of 0..99; MaxCoord stands for 99.
Coords == 0..MaxCoord

NoDraw == [x |-> -1, y |-> -1]

\* String color = i % 2 == 0 ? "Red" : "Blue"
ColorOfAlwaysRed(i) == "Red"

ColorOf(i) == IF i % 2 = 0 THEN "Red" ELSE "Blue"

\* Circle(String color) prints "Creating a <color> circle"
CreatingLine(color) == [kind |-> "Creating", color |-> color]

\* Circle.draw prints "Drawing <color> circle at (x, y)"; x and y are kept
\* in runXY
DrawingLine(color) == [kind |-> "Drawing", color |-> color]

FlyClientInit ==
    /\ runI = [r \in Runs |-> 0]
    /\ runMap = [r \in Runs |-> EmptyMap]
    /\ runCount = [r \in Runs |-> 0]
    /\ runOut = [r \in Runs |-> <<>>]
    /\ runXY = [r \in Runs |-> NoDraw]

\* One iteration of the loop in run r: getCircle(color), two calls of
\* Math.random(), circle.draw(x, y).
FlyweightClient_iteration(r) ==
    /\ runI[r] < Iterations
    /\ LET color == ColorOf(runI[r])
           g == FlyweightLookup(runMap[r], runCount[r], color)
           made == IF g.created THEN <<CreatingLine(color)>> ELSE <<>>
       IN  /\ runMap' = [runMap EXCEPT ![r] = g.map]
           /\ runCount' = [runCount EXCEPT ![r] = g.count]
           /\ \E x \in Coords, y \in Coords :
                 runXY' = [runXY EXCEPT ![r] = [x |-> x, y |-> y]]
           /\ runOut' = [runOut EXCEPT
                            ![r] = @ \o made \o <<DrawingLine(color)>>]
    /\ runI' = [runI EXCEPT ![r] = @ + 1]
    /\ UNCHANGED notFlyClient

(***************************************************************************)
(* Proxy (C++): DocumentProxy in front of RealDocument                     *)
(***************************************************************************)
S_Admin == <<"A", "d", "m", "i", "n">>
S_Guest == <<"G", "u", "e", "s", "t">>
S_admin == <<"a", "d", "m", "i", "n">>
S_Administrator ==
    <<"A", "d", "m", "i", "n", "i", "s", "t", "r", "a", "t", "o", "r">>

\* The two proxies of main.
DocProxies == {"adminView", "guestView"}

DocFiles == {"classified.pdf", "notes.txt"}

DocRoles == {S_Admin, S_Guest, S_admin, S_Administrator, S_empty}

DocProxyInit ==
    /\ docBuilt = [p \in DocProxies |-> FALSE]
    /\ docFile = [p \in DocProxies |-> ""]
    /\ docRole = [p \in DocProxies |-> S_empty]
    /\ realDocument = [p \in DocProxies |-> Null]
    /\ docCount = 0
    /\ docCalls = [p \in DocProxies |-> 0]
    /\ docOut = [p \in DocProxies |-> <<>>]

\* userRole == "Admin"
IsAdminIgnoreCase(role) == StrEqIgnoreCase(role, S_Admin)

IsAdmin(role) == StrEq(role, S_Admin)

\* !realDocument
NeedsLoadAlways(doc) == TRUE

NeedsLoad(doc) == doc = Null

\* RealDocument::loadFromDisk
LoadingLine(file) == [line |-> "Loading document", file |-> file]

\* RealDocument::display
DisplayingLine(file) == [line |-> "Displaying document", file |-> file]

DeniedLine == [line |-> "Access denied", file |-> ""]

\* DocumentProxy::DocumentProxy(file, role)
DocumentProxy_new(p, file, role) ==
    /\ ~docBuilt[p]
    /\ docBuilt' = [docBuilt EXCEPT ![p] = TRUE]
    /\ docFile' = [docFile EXCEPT ![p] = file]
    /\ docRole' = [docRole EXCEPT ![p] = role]
    /\ realDocument' = [realDocument EXCEPT ![p] = Null]
    /\ UNCHANGED <<docCount, docCalls, docOut, notDocProxy>>

\* DocumentProxy::display, with the RealDocument constructor and
\* RealDocument::display it calls.
DocumentProxy_display(p) ==
    /\ docBuilt[p]
    /\ docCalls[p] < MaxDisplays
    /\ docCalls' = [docCalls EXCEPT ![p] = @ + 1]
    /\ IF IsAdmin(docRole[p])
       THEN LET load == NeedsLoad(realDocument[p])
                made == IF load THEN <<LoadingLine(docFile[p])>> ELSE <<>>
            IN  /\ docCount' = (IF load THEN docCount + 1 ELSE docCount)
                /\ realDocument' =
                      [realDocument EXCEPT
                          ![p] = IF load THEN docCount + 1 ELSE @]
                /\ docOut' =
                      [docOut EXCEPT
                          ![p] = @ \o made \o <<DisplayingLine(docFile[p])>>]
       ELSE /\ docOut' = [docOut EXCEPT ![p] = Append(@, DeniedLine)]
            /\ UNCHANGED <<docCount, realDocument>>
    /\ UNCHANGED <<docBuilt, docFile, docRole, notDocProxy>>

(***************************************************************************)
(* Proxy (Java): VideoDownloaderProxy in front of RealVideoDownloader      *)
(***************************************************************************)
\* The two proxies of ProxyPatternClient.main.
VidProxies == {"downloader", "unauthorizedDownloader"}

Urls == {"http://youtube.com/video1", "http://youtube.com/video2"}

VideoInit ==
    /\ vidBuilt = [p \in VidProxies |-> FALSE]
    /\ hasAccess = [p \in VidProxies |-> FALSE]
    /\ cache = [p \in VidProxies |-> {}]
    /\ vidReq = [p \in VidProxies |-> <<>>]
    /\ realCalls = [p \in VidProxies |-> <<>>]
    /\ vidOut = [p \in VidProxies |-> <<>>]

\* !hasAccess
AccessRefusedNever(access) == FALSE

AccessRefused(access) == ~access

\* cache.contains(url)
CacheContainsNever(set, url) == FALSE

CacheContains(set, url) == url \in set

AccessDeniedLine == [line |-> "Access Denied", url |-> ""]

FetchingLine(url) == [line |-> "Fetching video from cache", url |-> url]

\* RealVideoDownloader.downloadVideo
DownloadingLine(url) == [line |-> "Downloading video from", url |-> url]

\* new VideoDownloaderProxy(hasAccess)
VideoDownloaderProxy_new(p, access) ==
    /\ ~vidBuilt[p]
    /\ vidBuilt' = [vidBuilt EXCEPT ![p] = TRUE]
    /\ hasAccess' = [hasAccess EXCEPT ![p] = access]
    /\ cache' = [cache EXCEPT ![p] = {}]
    /\ UNCHANGED <<vidReq, realCalls, vidOut, notVideo>>

\* VideoDownloaderProxy.downloadVideo(url), with the call of
\* RealVideoDownloader.downloadVideo it makes.
VideoDownloaderProxy_downloadVideo(p, url) ==
    /\ vidBuilt[p]
    /\ Len(vidReq[p]) < MaxDownloads
    /\ vidReq' = [vidReq EXCEPT ![p] = Append(@, url)]
    /\ IF AccessRefused(hasAccess[p])
       THEN /\ vidOut' = [vidOut EXCEPT ![p] = Append(@, AccessDeniedLine)]
            /\ UNCHANGED <<cache, realCalls>>
       ELSE IF CacheContains(cache[p], url)
       THEN /\ vidOut' = [vidOut EXCEPT ![p] = Append(@, FetchingLine(url))]
            /\ UNCHANGED <<cache, realCalls>>
       ELSE /\ realCalls' = [realCalls EXCEPT ![p] = Append(@, url)]
            /\ vidOut' =
                  [vidOut EXCEPT ![p] = Append(@, DownloadingLine(url))]
            /\ cache' = [cache EXCEPT ![p] = @ \cup {url}]
    /\ UNCHANGED <<vidBuilt, hasAccess, notVideo>>

(***************************************************************************)
(* Iterator: Library, BookIterator (C++) / LibraryIterator (Java)          *)
(***************************************************************************)
BookNames == {"Design Patterns", "Clean Code"}

\* The client's iterator variables.
IterHandles == {"iterator", "iterator2"}

IterIds == 1..Cardinality(IterHandles)

NoOp == [op |-> "none", h |-> ""]

IterInit ==
    /\ books = <<>>
    /\ iterOf = [h \in IterHandles |-> Null]
    /\ iterIndex = [o \in IterIds |-> 0]
    /\ iterRead = [h \in IterHandles |-> <<>>]
    /\ iterHas = [h \in IterHandles |-> "none"]
    /\ iterSeen = [h \in IterHandles |-> 0]
    /\ iterLoop = [h \in IterHandles |-> TRUE]
    /\ iterThrew = [h \in IterHandles |-> FALSE]
    /\ iterLast = NoOp

IterObjects == {iterOf[h] : h \in IterHandles} \ {Null}

\* std::make_shared<BookIterator>(books) / new LibraryIterator(books)
NewIteratorShared(objs) ==
    IF objs = {} THEN 1 ELSE CHOOSE o \in objs : TRUE

NewIterator(objs) == CHOOSE o \in IterIds : o \notin objs

\* index < books.size()
HasNextInclusive(index, size) == index <= size

HasNext(index, size) == index < size

\* LibraryIterator.index is a Java int: index++ at the largest int gives
\* the smallest one.
IntMax == 2147483647

IntMin == (-IntMax) - 1

PostIncrement(index) == IF index = IntMax THEN IntMin ELSE index + 1

\* The range check of vector::at / List.get.
InRange(index, size) == 0 <= index /\ index < size

\* Library::addBook
Library_addBook(b) ==
    /\ Len(books) < MaxBooks
    /\ books' = Append(books, b)
    /\ iterLast' = [op |-> "addBook", h |-> ""]
    /\ UNCHANGED <<iterOf, iterIndex, iterRead, iterHas, iterSeen, iterLoop,
                   iterThrew, notIter>>

\* h = library.createIterator(): a new iterator at index 0 over the
\* library's own list.
Library_createIterator(h) ==
    /\ iterOf[h] = Null
    /\ LET o == NewIterator(IterObjects)
       IN  /\ iterOf' = [iterOf EXCEPT ![h] = o]
           /\ iterIndex' = [iterIndex EXCEPT ![o] = 0]
    /\ iterLast' = [op |-> "createIterator", h |-> h]
    /\ UNCHANGED <<books, iterRead, iterHas, iterSeen, iterLoop, iterThrew,
                   notIter>>

\* BookIterator::hasNext / LibraryIterator.hasNext
Iterator_hasNext(h) ==
    /\ iterOf[h] # Null
    /\ iterHas' =
          [iterHas EXCEPT
              ![h] = IF HasNext(iterIndex[iterOf[h]], Len(books))
                     THEN "true"
                     ELSE "false"]
    /\ iterSeen' = [iterSeen EXCEPT ![h] = Len(books)]
    /\ iterLast' = [op |-> "hasNext", h |-> h]
    /\ UNCHANGED <<books, iterOf, iterIndex, iterRead, iterLoop, iterThrew,
                   notIter>>

\* BookIterator::next / LibraryIterator.next: books.at(index++). The index
\* is incremented before the element is fetched, also when the fetch throws.
Iterator_next(h) ==
    /\ iterOf[h] # Null
    /\ iterIndex[iterOf[h]] \in (0..MaxBooks) \cup {IntMin}
    /\ LET o == iterOf[h]
           i == iterIndex[o]
       IN  /\ iterIndex' = [iterIndex EXCEPT ![o] = PostIncrement(i)]
           /\ IF InRange(i, Len(books))
              THEN /\ iterRead' =
                         [iterRead EXCEPT ![h] = Append(@, books[i + 1])]
                   /\ UNCHANGED iterThrew
              ELSE /\ iterThrew' = [iterThrew EXCEPT ![h] = TRUE]
                   /\ UNCHANGED iterRead
    /\ iterLoop' = [iterLoop EXCEPT ![h] = @ /\ iterHas[h] = "true"]
    /\ iterHas' = [iterHas EXCEPT ![h] = "none"]
    /\ iterLast' = [op |-> "next", h |-> h]
    /\ UNCHANGED <<books, iterOf, iterSeen, notIter>>

\* The client calls LibraryIterator.next on an exhausted iterator again and
\* again, catching each IndexOutOfBoundsException, until hasNext() answers
\* true: every call throws and increments index, which goes through IntMax
\* and arrives at IntMin.
LibraryIterator_nextUntilHasNext(h) ==
    /\ iterOf[h] # Null
    /\ InRange(iterIndex[iterOf[h]], IntMax)
    /\ ~HasNext(iterIndex[iterOf[h]], Len(books))
    /\ iterIndex' = [iterIndex EXCEPT ![iterOf[h]] = PostIncrement(IntMax)]
    /\ iterThrew' = [iterThrew EXCEPT ![h] = TRUE]
    /\ iterLoop' = [iterLoop EXCEPT ![h] = FALSE]
    /\ iterHas' = [iterHas EXCEPT ![h] = "none"]
    /\ iterLast' = [op |-> "nextUntilHasNext", h |-> h]
    /\ UNCHANGED <<books, iterOf, iterRead, iterSeen, notIter>>

(***************************************************************************)
(* Builder: Computer::Builder (C++), Computer.Builder (Java)               *)
(***************************************************************************)
CPUs == {"Intel i9", "Intel i5"}

RAMs == {"32GB", "16GB"}

NoBuilder ==
    [made |-> FALSE, CPU |-> "", RAM |-> "",
     hasGraphicsCard |-> FALSE, hasBluetooth |-> FALSE]

NoArgs == [cpu |-> "", ram |-> ""]

NoLine == [CPU |-> "", RAM |-> "", GraphicsCard |-> "", Bluetooth |-> ""]

BuilderInit ==
    /\ builder = NoBuilder
    /\ builderArgs = NoArgs
    /\ builderOps = <<>>
    /\ computers = <<>>
    /\ builtAt = <<>>
    /\ printed = NoLine

\* Builder::setGraphicsCard: hasGraphicsCard = value
SetGraphicsCard(b, value) == [b EXCEPT !.hasGraphicsCard = value]

\* Builder::setBluetooth: hasBluetooth = value
SetBluetoothBoth(b, value) ==
    [b EXCEPT !.hasBluetooth = value, !.hasGraphicsCard = value]

SetBluetooth(b, value) == [b EXCEPT !.hasBluetooth = value]

\* Computer(cpu, ram, graphics, bluetooth) / Computer(Builder builder): the
\* new object holds copies of the four values.
NewComputerDefaults(b) ==
    [CPU |-> b.CPU, RAM |-> b.RAM,
     hasGraphicsCard |-> FALSE, hasBluetooth |-> FALSE]

NewComputer(b) ==
    [CPU |-> b.CPU, RAM |-> b.RAM,
     hasGraphicsCard |-> b.hasGraphicsCard, hasBluetooth |-> b.hasBluetooth]

\* (hasGraphicsCard ? "true" : "false") / string concatenation of a boolean
BoolText(v) == IF v THEN "true" ELSE "false"

\* Computer::printSpecs / Computer.toString
SpecsLine(c) ==
    [CPU |-> c.CPU, RAM |-> c.RAM,
     GraphicsCard |-> BoolText(c.hasGraphicsCard),
     Bluetooth |-> BoolText(c.hasBluetooth)]

\* Computer::Builder(cpu, ram)
Builder_new(cpu, ram) ==
    /\ ~builder.made
    /\ builder' =
          [made |-> TRUE, CPU |-> cpu, RAM |-> ram,
           hasGraphicsCard |-> FALSE, hasBluetooth |-> FALSE]
    /\ builderArgs' = [cpu |-> cpu, ram |-> ram]
    /\ UNCHANGED <<builderOps, computers, builtAt, printed, notBuilder>>

Builder_setGraphicsCard(value) ==
    /\ builder.made
    /\ Len(builderOps) < MaxSetters
    /\ builder' = SetGraphicsCard(builder, value)
    /\ builderOps' =
          Append(builderOps, [setter |-> "setGraphicsCard", value |-> value])
    /\ UNCHANGED <<builderArgs, computers, builtAt, printed, notBuilder>>

Builder_setBluetooth(value) ==
    /\ builder.made
    /\ Len(builderOps) < MaxSetters
    /\ builder' = SetBluetooth(builder, value)
    /\ builderOps' =
          Append(builderOps, [setter |-> "setBluetooth", value |-> value])
    /\ UNCHANGED <<builderArgs, computers, builtAt, printed, notBuilder>>

\* Builder::build
Builder_build ==
    /\ builder.made
    /\ Len(computers) < MaxComputers
    /\ computers' = Append(computers, NewComputer(builder))
    /\ builtAt' = Append(builtAt, Len(builderOps))
    /\ UNCHANGED <<builder, builderArgs, builderOps, printed, notBuilder>>

\* computers[i].printSpecs() / System.out.println(computers[i])
Computer_printSpecs(i) ==
    /\ i \in DOMAIN computers
    /\ printed' = SpecsLine(computers[i])
    /\ UNCHANGED <<builder, builderArgs, builderOps, computers, builtAt,
                   notBuilder>>

(***************************************************************************)
(* Decorator: Beverage (C++), Coffee (Java)                                *)
(***************************************************************************)
\* cost() returns a double.  A value is kept as an integer number of units,
\* UnitsPerCent units to the cent; a double literal and a double addition
\* are each off by at most one unit (a double's rounding error is far
\* smaller than a thousandth of a cent for these amounts).
UnitsPerCent == 1000

RoundingErrors == -1..1

Bases == {"Espresso", "HouseBlend", "SimpleCoffee"}

CppDecorators == {"MilkDecorator", "WhipDecorator"}

JavaDecorators == {"JavaMilkDecorator", "SugarDecorator"}

\* The decorators that accept the component: Beverage or Coffee.
DecoratorsFor(base) ==
    IF base = "SimpleCoffee" THEN JavaDecorators ELSE CppDecorators

\* Espresso::getDescription, HouseBlend::getDescription,
\* SimpleCoffee.getDescription
BaseDescription(base) ==
    CASE base = "Espresso" -> "Espresso"
      [] base = "HouseBlend" -> "House Blend Coffee"
      [] base = "SimpleCoffee" -> "Simple Coffee"

\* 1.99, 0.89, 5.0
BaseCents(base) ==
    CASE base = "Espresso" -> 199
      [] base = "HouseBlend" -> 89
      [] base = "SimpleCoffee" -> 500

Suffix(d) ==
    CASE d = "MilkDecorator" -> ", Milk"
      [] d = "WhipDecorator" -> ", Whip"
      [] d = "JavaMilkDecorator" -> ", Milk"
      [] d = "SugarDecorator" -> ", Sugar"

\* 0.30, 0.50, 1.5, 0.5
Surcharge(d) ==
    CASE d = "MilkDecorator" -> 30
      [] d = "WhipDecorator" -> 50
      [] d = "JavaMilkDecorator" -> 150
      [] d = "SugarDecorator" -> 50

\* The double nearest to a literal of `cents` cents.
Literals(cents) == {cents * UnitsPerCent + e : e \in RoundingErrors}

\* beverage->getDescription() + ", Milk": the pieces, in order.
RECURSIVE getDescription(_, _)
getDescription(base, wraps) ==
    IF wraps = <<>>
    THEN <<BaseDescription(base)>>
    ELSE Append(getDescription(base, SubSeq(wraps, 1, Len(wraps) - 1)),
                Suffix(wraps[Len(wraps)]))

\* beverage->cost() + 0.30: the doubles the addition can give.
DecoratedCostAlone(inner, d) ==
    {s + e : s \in Literals(Surcharge(d)), e \in RoundingErrors}

DecoratedCost(inner, d) ==
    {inner + s + e : s \in Literals(Surcharge(d)), e \in RoundingErrors}

RECURSIVE cost(_, _)
cost(base, wraps) ==
    IF wraps = <<>>
    THEN Literals(BaseCents(base))
    ELSE UNION {DecoratedCost(c, wraps[Len(wraps)]) :
                   c \in cost(base, SubSeq(wraps, 1, Len(wraps) - 1))}

NoCost == -1

DecoInit ==
    /\ bevBase = ""
    /\ bevWraps = <<>>
    /\ bevAt = <<>>
    /\ bevDesc = <<>>
    /\ bevCost = NoCost

\* beverage = std::make_shared<Espresso>() / myCoffee = new SimpleCoffee()
Beverage_new(base) ==
    /\ bevBase = ""
    /\ bevBase' = base
    /\ UNCHANGED <<bevWraps, bevAt, bevDesc, bevCost, notDeco>>

\* beverage = std::make_shared<MilkDecorator>(beverage)
Beverage_wrap(d) ==
    /\ bevBase # ""
    /\ d \in DecoratorsFor(bevBase)
    /\ Len(bevWraps) < MaxWraps
    /\ bevWraps' = Append(bevWraps, d)
    /\ UNCHANGED <<bevBase, bevAt, bevDesc, bevCost, notDeco>>

\* std::cout << beverage->getDescription() << " $" << beverage->cost()
Beverage_print ==
    /\ bevBase # ""
    /\ bevAt' = bevWraps
    /\ bevDesc' = getDescription(bevBase, bevWraps)
    /\ bevCost' \in cost(bevBase, bevWraps)
    /\ UNCHANGED <<bevBase, bevWraps, notDeco>>

(***************************************************************************)
(* Composite: Graphic / Group (C++), FileSystemComponent / Folder (Java)   *)
(***************************************************************************)
\* The objects main creates: two leaves and two composites.
Leaves == {"circle1", "rect1"}

Groups == {"group1", "group2"}

CompNodes == Leaves \cup Groups

\* Names of the Java objects standing in the same places.
JavaName(n) ==
    CASE n = "circle1" -> "Resume.pdf"
      [] n = "rect1" -> "Photo.png"
      [] n = "group1" -> "Documents"
      [] n = "group2" -> "Root"

CompositeInit ==
    /\ compLang = ""
    /\ children = [g \in Groups |-> <<>>]
    /\ compPhase = "build"
    /\ compRoot = ""
    /\ compStack = <<>>
    /\ compOut = <<>>

\* Circle::draw, Rectangle::draw / File.showDetails
LeafLine(l, n) ==
    IF l = "java"
    THEN [text |-> "File: ", name |-> JavaName(n)]
    ELSE IF n = "circle1"
    THEN [text |-> "Drawing Circle", name |-> ""]
    ELSE [text |-> "Drawing Rectangle", name |-> ""]

\* Group::draw, first line / Folder.showDetails, first line
StartLine(l, n) ==
    IF l = "java"
    THEN [text |-> "Folder: ", name |-> JavaName(n)]
    ELSE [text |-> "Group Drawing Start:", name |-> ""]

\* Group::draw, last line; Folder.showDetails prints nothing at its end
EndLines(l) ==
    IF l = "java"
    THEN <<>>
    ELSE <<[text |-> "Group Drawing End", name |-> ""]>>

\* for (const auto& child : children): the child of the i-th iteration
ChildAtReversed(kids, i) == kids[Len(kids) + 1 - i]

ChildAt(kids, i) == kids[i]

\* the loop moves on to the next child
NextChildStuck(i) == i

NextChild(i) == i + 1

Adds == Len(children["group1"]) + Len(children["group2"])

Composite_start(l) ==
    /\ compLang = ""
    /\ compLang' = l
    /\ UNCHANGED <<children, compPhase, compRoot, compStack, compOut,
                   notComposite>>

\* Group::add / Folder.addComponent
Group_add(g, c) ==
    /\ compLang # ""
    /\ compPhase = "build"
    /\ Adds < MaxAdds
    /\ children' = [children EXCEPT ![g] = Append(@, c)]
    /\ UNCHANGED <<compLang, compPhase, compRoot, compStack, compOut,
                   notComposite>>

\* main calls root->draw(): a leaf prints its line and returns; a group
\* prints its first line and enters its loop.
Graphic_draw(root) ==
    /\ compLang # ""
    /\ compPhase = "build"
    /\ compRoot' = root
    /\ IF root \in Leaves
       THEN /\ compOut' = <<LeafLine(compLang, root)>>
            /\ compPhase' = "done"
            /\ UNCHANGED compStack
       ELSE /\ compOut' = <<StartLine(compLang, root)>>
            /\ compPhase' = "draw"
            /\ compStack' = <<[node |-> root, next |-> 1]>>
    /\ UNCHANGED <<compLang, children, notComposite>>

\* One iteration of the loop of the innermost active Group::draw:
\* child->draw().  A call nested deeper than the stack allows ends the
\* program (stack overflow).
Group_drawChild ==
    /\ compPhase = "draw"
    /\ LET d == Len(compStack)
           f == compStack[d]
           kids == children[f.node]
       IN  /\ f.next <= Len(kids)
           /\ LET c == ChildAt(kids, f.next)
                  stepped == [compStack EXCEPT ![d].next = NextChild(f.next)]
              IN  IF c \in Leaves
                  THEN /\ compOut' = Append(compOut, LeafLine(compLang, c))
                       /\ compStack' = stepped
                       /\ UNCHANGED compPhase
                  ELSE IF d >= MaxDepth
                  THEN /\ compPhase' = "overflow"
                       /\ UNCHANGED <<compStack, compOut>>
                  ELSE /\ compOut' = Append(compOut, StartLine(compLang, c))
                       /\ compStack' =
                             Append(stepped, [node |-> c, next |-> 1])
                       /\ UNCHANGED compPhase
    /\ UNCHANGED <<compLang, children, compRoot, notComposite>>

\* The loop of the innermost active Group::draw is over: its last line,
\* and the return to its caller.
Group_drawReturn ==
    /\ compPhase = "draw"
    /\ LET d == Len(compStack)
           f == compStack[d]
       IN  /\ f.next > Len(children[f.node])
           /\ compOut' = compOut \o EndLines(compLang)
           /\ compStack' = SubSeq(compStack, 1, d - 1)
           /\ compPhase' = (IF d = 1 THEN "done" ELSE "draw")
    /\ UNCHANGED <<compLang, children, compRoot, notComposite>>

(***************************************************************************)
(* Abstract factory: GUIFactory, WindowsFactory, MacFactory, Application   *)
(***************************************************************************)
GuiFactories == {"WindowsFactory", "MacFactory"}

GuiApps == {"app", "app2"}

\* WindowsFactory::createButton, MacFactory::createButton
createButton(factory) ==
    IF factory = "WindowsFactory" THEN "WindowsButton" ELSE "MacButton"

\* WindowsFactory::createCheckbox, MacFactory::createCheckbox
createCheckboxWindows(factory) == "WindowsCheckbox"

createCheckbox(factory) ==
    IF factory = "WindowsFactory" THEN "WindowsCheckbox" ELSE "MacCheckbox"

\* WindowsButton::render, MacButton::render, WindowsCheckbox::render,
\* MacCheckbox::render
render(class) ==
    CASE class = "WindowsButton" -> "Rendering Windows Button"
      [] class = "WindowsCheckbox" -> "Rendering Windows Checkbox"
      [] class = "MacButton" -> "Rendering Mac Button"
      [] class = "MacCheckbox" -> "Rendering Mac Checkbox"

GuiInit ==
    /\ guiFactory = [a \in GuiApps |-> ""]
    /\ guiButton = [a \in GuiApps |-> "nullptr"]
    /\ guiCheckbox = [a \in GuiApps |-> "nullptr"]
    /\ guiOut = <<>>

\* Application::Application(factory)
Application_new(a, factory) ==
    /\ guiFactory[a] = ""
    /\ guiFactory' = [guiFactory EXCEPT ![a] = factory]
    /\ guiButton' = [guiButton EXCEPT ![a] = createButton(factory)]
    /\ guiCheckbox' = [guiCheckbox EXCEPT ![a] = createCheckbox(factory)]
    /\ UNCHANGED <<guiOut, notGui>>

\* Application::renderUI
Application_renderUI(a) ==
    /\ guiFactory[a] # ""
    /\ Len(guiOut) < 2 * MaxRenders
    /\ guiOut' =
          guiOut \o <<[app |-> a, line |-> render(guiButton[a])],
                      [app |-> a, line |-> render(guiCheckbox[a])]>>
    /\ UNCHANGED <<guiFactory, guiButton, guiCheckbox, notGui>>

(***************************************************************************)
(* Liskov substitution example: Bird, Crow, Ostrich                        *)
(***************************************************************************)
BirdClasses == {"Bird", "Crow", "Ostrich"}

\* Bird::fly (which Crow inherits) and Ostrich::fly, called through Bird:
\* what the call prints and the exception it ends with ("" = none).
flyInherited(class) == [out |-> <<"Flying">>, thrown |-> ""]

fly(class) ==
    IF class = "Ostrich"
    THEN [out |-> <<>>, thrown |-> "Ostrich can't fly"]
    ELSE [out |-> <<"Flying">>, thrown |-> ""]

BirdInit ==
    /\ flock = <<>>
    /\ flyState = "building"
    /\ flyPos = 0
    /\ flyOut = <<>>
    /\ flyError = ""

\* The client puts another bird into its collection.
Client_addBird(class) ==
    /\ flyState = "building"
    /\ Len(flock) < MaxBirds
    /\ flock' = Append(flock, class)
    /\ UNCHANGED <<flyState, flyPos, flyOut, flyError, notBird>>

\* for (Bird* b : flock) b->fly(): the loop begins.
Client_loop ==
    /\ flyState = "building"
    /\ flyState' = (IF flock = <<>> THEN "completed" ELSE "looping")
    /\ UNCHANGED <<flock, flyPos, flyOut, flyError, notBird>>

\* One b->fly() call of the loop; an exception leaves the loop.
Bird_fly ==
    /\ flyState = "looping"
    /\ LET r == fly(flock[flyPos + 1])
       IN  /\ flyOut' = flyOut \o r.out
           /\ flyError' = r.thrown
           /\ IF r.thrown # ""
              THEN /\ flyState' = "thrown"
                   /\ UNCHANGED flyPos
              ELSE /\ flyPos' = flyPos + 1
                   /\ flyState' =
                         (IF flyPos + 1 = Len(flock)
                          THEN "completed"
                          ELSE "looping")
    /\ UNCHANGED <<flock, notBird>>

(***************************************************************************)
(* ShapeFactory (Java)                                                     *)
(***************************************************************************)
S_CIRCLE == <<"C", "I", "R", "C", "L", "E">>
S_Square == <<"S", "q", "u", "a", "r", "e">>

\* A String argument: null, or the string with these characters.
NullString == [isNull |-> TRUE, chars |-> <<>>]

StringOf(chars) == [isNull |-> FALSE, chars |-> chars]

JShapeArgs ==
    {NullString} \cup
    {StringOf(k) : k \in {S_circle, S_rectangle, S_square, S_CIRCLE,
                          S_Square, S_SQUARE, S_triangle, S_empty}}

\* switch (shapeType.toLowerCase())
SwitchKeyExact(shapeType) == shapeType.chars

SwitchKey(shapeType) == toLowerCase(shapeType.chars)

\* ShapeFactory.getShape: the class of the object returned, "null" for no
\* object; threw tells whether an exception left the method.
getShapeJava(shapeType) ==
    IF shapeType.isNull
    THEN [shape |-> "null", threw |-> FALSE]
    ELSE [shape |->
              CASE StrEq(SwitchKey(shapeType), S_circle) -> "Circle"
                [] StrEq(SwitchKey(shapeType), S_rectangle) -> "Rectangle"
                [] StrEq(SwitchKey(shapeType), S_square) -> "Square"
                [] OTHER -> "null",
          threw |-> FALSE]

JShapeInit == jshapes = <<>>

\* The client calls shapeFactory.getShape(arg) and keeps the result.
ShapeFactoryJava_getShape(arg) ==
    /\ Len(jshapes) < MaxJavaShapeCalls
    /\ jshapes' = Append(jshapes, [arg |-> arg, got |-> getShapeJava(arg)])
    /\ UNCHANGED notJShape

(***************************************************************************)
(* Facade: HomeTheaterFacade                                               *)
(***************************************************************************)
FacadeLangs == {"cpp", "java"}

Movies == {"Inception", "Up"}

NoArg == "-"

\* One statement of a facade method: a call on a subsystem object, or a
\* line printed by the facade itself (dev "console").
Step(dev, op, arg) == [dev |-> dev, op |-> op, arg |-> arg]

\* HomeTheaterFacade::watchMovie
watchMovie(impl, movie) ==
    IF impl = "cpp"
    THEN << Step("console", "print", "Get ready to watch a movie..."),
            Step("projector", "on", NoArg),
            Step("projector", "wideScreenMode", NoArg),
            Step("amp", "on", NoArg),
            Step("amp", "setVolume", "5"),
            Step("dvd", "on", NoArg),
            Step("dvd", "play", movie) >>
    ELSE << Step("console", "print", "Get ready to watch a movie..."),
            Step("dvd", "on", NoArg),
            Step("projector", "on", NoArg),
            Step("projector", "setInput", "DVD"),
            Step("amp", "on", NoArg),
            Step("amp", "setVolume", "5"),
            Step("dvd", "play", movie) >>

\* An endMovie that leaves the amplifier running.
endMovieAmpLeftOn(impl) ==
    << Step("console", "print", "Shutting movie theater down..."),
       Step("dvd", "off", NoArg),
       Step("projector", "off", NoArg) >>

\* HomeTheaterFacade::endMovie
endMovie(impl) ==
    IF impl = "cpp"
    THEN << Step("console", "print", "Shutting movie theater down..."),
            Step("dvd", "off", NoArg),
            Step("amp", "off", NoArg),
            Step("projector", "off", NoArg) >>
    ELSE << Step("console", "print", "Shutting down the movie theater..."),
            Step("dvd", "off", NoArg),
            Step("projector", "off", NoArg),
            Step("amp", "off", NoArg) >>

FacadeInit == facLang = "none" /\ facCalls = <<>>

\* HomeTheaterFacade homeTheater;  /  new HomeTheaterFacade(dvd, projector, amp)
HomeTheaterFacade_new(impl) ==
    /\ facLang = "none"
    /\ facLang' = impl
    /\ UNCHANGED <<facCalls, notFacade>>

\* homeTheater.watchMovie(movie)
HomeTheaterFacade_watchMovie(movie) ==
    /\ facLang # "none" /\ Len(facCalls) < MaxFacadeCalls
    /\ facCalls' = Append(facCalls, [method |-> "watchMovie",
                                     steps |-> watchMovie(facLang, movie)])
    /\ UNCHANGED <<facLang, notFacade>>

\* homeTheater.endMovie()
HomeTheaterFacade_endMovie ==
    /\ facLang # "none" /\ Len(facCalls) < MaxFacadeCalls
    /\ facCalls' = Append(facCalls, [method |-> "endMovie",
                                     steps |-> endMovie(facLang)])
    /\ UNCHANGED <<facLang, notFacade>>

---------------------------------------------------------------------------
Init == SingletonInit /\ ShapeInit /\ ProtoInit /\ FlyInit
        /\ FlyClientInit /\ DocProxyInit /\ VideoInit /\ IterInit
        /\ BuilderInit /\ DecoInit /\ CompositeInit /\ GuiInit
        /\ BirdInit /\ JShapeInit /\ FacadeInit

NextSingleton ==
    \/ \E p \in Programs : Start(p)
    \/ \E t \in Threads :
          \/ Call(t)
          \/ Eager_return(t)
          \/ Lazy_check(t) \/ Lazy_new(t) \/ Lazy_return(t)
          \/ ThreadSafe_lock(t) \/ ThreadSafe_check(t) \/ ThreadSafe_new(t)
          \/ ThreadSafe_return(t)
          \/ DCL_check1(t) \/ DCL_lock(t) \/ DCL_check2(t) \/ DCL_alloc(t)
          \/ DCL_construct(t) \/ DCL_store(t) \/ DCL_unlock(t)
          \/ DCL_return(t)
          \/ Meyers_static(t) \/ Meyers_construct(t) \/ Meyers_return(t)
          \/ Smart_check(t) \/ Smart_make(t) \/ Smart_return(t)

SpecSingleton == Init /\ [][NextSingleton]_vars

\* One step of thread t inside ThreadSafeSingleton::getInstance or
\* DCLSingleton::getInstance.
getInstance_step(t) ==
    \/ ThreadSafe_lock(t) \/ ThreadSafe_check(t) \/ ThreadSafe_new(t)
    \/ ThreadSafe_return(t)
    \/ DCL_check1(t) \/ DCL_lock(t) \/ DCL_check2(t) \/ DCL_alloc(t)
    \/ DCL_construct(t) \/ DCL_store(t) \/ DCL_unlock(t)
    \/ DCL_return(t)

\* A fair scheduler: a thread that can take a step of getInstance is not
\* left out for ever.  Whether a thread calls at all is up to the client.
SpecSingletonFair ==
    /\ Init
    /\ [][NextSingleton]_vars
    /\ \A t \in Threads : WF_vars(getInstance_step(t))

NextShapeFactory == \E k \in ShapeKeys : ShapeFactory_getShape(k)

SpecShapeFactory == Init /\ [][NextShapeFactory]_vars

NextPrototype ==
    \/ \E l \in {"cpp", "java"} : GameSimulator_start(l)
    \/ EnemyFactory_initialize
    \/ \E type \in EnemyKeys : EnemyFactory_getEnemy(type)
    \/ \E type \in EnemyKeys : EnemyFactoryJava_getEnemy(type)
    \/ EnemyFactoryJava_getEnemyNull
    \/ \E c \in EnemyIds, n \in NewNames : Enemy_setName(c, n)
    \/ \E c \in EnemyIds, h \in NewHealths : Enemy_setHealth(c, h)

SpecPrototype == Init /\ [][NextPrototype]_vars

NextFlyweight == \E c \in FlyKeys : CharacterFactory_getCharacter(c)

SpecFlyweight == Init /\ [][NextFlyweight]_vars

NextFlyClient == \E r \in Runs : FlyweightClient_iteration(r)

\* The main thread of each run keeps running until the loop ends.
SpecFlyClient ==
    /\ Init
    /\ [][NextFlyClient]_vars
    /\ \A r \in Runs : WF_vars(FlyweightClient_iteration(r))

NextDocProxy ==
    \E p \in DocProxies :
        \/ \E file \in DocFiles, role \in DocRoles :
              DocumentProxy_new(p, file, role)
        \/ DocumentProxy_display(p)

SpecDocProxy == Init /\ [][NextDocProxy]_vars

NextVideo ==
    \E p \in VidProxies :
        \/ \E access \in BOOLEAN : VideoDownloaderProxy_new(p, access)
        \/ \E url \in Urls : VideoDownloaderProxy_downloadVideo(p, url)

SpecVideo == Init /\ [][NextVideo]_vars

NextIter ==
    \/ \E b \in BookNames : Library_addBook(b)
    \/ \E h \in IterHandles :
          \/ Library_createIterator(h)
          \/ Iterator_hasNext(h)
          \/ Iterator_next(h)
          \/ LibraryIterator_nextUntilHasNext(h)

SpecIter == Init /\ [][NextIter]_vars

NextBuilder ==
    \/ \E cpu \in CPUs, ram \in RAMs : Builder_new(cpu, ram)
    \/ \E value \in BOOLEAN : Builder_setGraphicsCard(value)
    \/ \E value \in BOOLEAN : Builder_setBluetooth(value)
    \/ Builder_build
    \/ \E i \in 1..MaxComputers : Computer_printSpecs(i)

SpecBuilder == Init /\ [][NextBuilder]_vars

NextDeco ==
    \/ \E base \in Bases : Beverage_new(base)
    \/ \E d \in CppDecorators \cup JavaDecorators : Beverage_wrap(d)
    \/ Beverage_print

SpecDeco == Init /\ [][NextDeco]_vars

NextComposite ==
    \/ \E l \in {"cpp", "java"} : Composite_start(l)
    \/ \E g \in Groups, c \in CompNodes : Group_add(g, c)
    \/ \E root \in CompNodes : Graphic_draw(root)
    \/ Group_drawChild
    \/ Group_drawReturn

\* A draw() call that has started keeps running.
SpecComposite ==
    /\ Init
    /\ [][NextComposite]_vars
    /\ WF_vars(Group_drawChild \/ Group_drawReturn)

NextGui ==
    \E a \in GuiApps :
        \/ \E factory \in GuiFactories : Application_new(a, factory)
        \/ Application_renderUI(a)

SpecGui == Init /\ [][NextGui]_vars

NextBird ==
    \/ \E class \in BirdClasses : Client_addBird(class)
    \/ Client_loop
    \/ Bird_fly

SpecBird == Init /\ [][NextBird]_vars

NextShapeFactoryJava == \E arg \in JShapeArgs : ShapeFactoryJava_getShape(arg)

SpecShapeFactoryJava == Init /\ [][NextShapeFactoryJava]_vars

NextFacade ==
    \/ \E impl \in FacadeLangs : HomeTheaterFacade_new(impl)
    \/ \E movie \in Movies : HomeTheaterFacade_watchMovie(movie)
    \/ HomeTheaterFacade_endMovie

SpecFacade == Init /\ [][NextFacade]_vars

Spec == SpecSingleton

(***************************************************************************)
(* Properties of the Singleton variants                                    *)
(***************************************************************************)
Callers == {t \in Threads : calls[t] > 0}

Returned(t) == \E r \in results : r.thread = t

SameNonNull ==
    /\ \A r \in results : r.ptr # Null
    /\ \A r1, r2 \in results : r1.ptr = r2.ptr

\* C1: mutex-guarded singleton: in every interleaving the constructor runs at
\* most once and every call returns the same non-null, constructed instance.
C1_MutexSingletonOnce ==
    program = "ThreadSafe" =>
        /\ Cardinality(Created) <= 1
        /\ SameNonNull
        /\ \A r \in results : r.complete

C1_Witness ==
    /\ program = "ThreadSafe"
    /\ overlap
    /\ \A t \in Threads : Returned(t)
    /\ Cardinality(Created) = 1

\* C2: double-checked locking (C++ and Java): in every interleaving, also when
\* several threads pass the unlocked first check together, the constructor
\* runs at most once and every call returns the same non-null instance.
C2_DCLOnce ==
    program \in {"DCL", "DCLJava"} =>
        /\ Cardinality(Created) <= 1
        /\ SameNonNull

C2_Witness ==
    /\ program = "DCL"
    /\ \E t, u \in Threads :
          /\ t # u
          /\ pc[t] = "unlock" /\ instance = tmp[t] /\ heap[tmp[t]] = "live"
          /\ pc[u] = "lock"

\* C3: safe publication in the C++ double-checked locking singleton: no call
\* returns a pointer to an object whose construction has not completed.
C3_SafePublication ==
    program = "DCL" => \A r \in results : r.ptr # Null /\ r.complete

\* C4: the unsynchronised lazy singleton: with a single calling thread the
\* constructor runs at most once and every call returns the same instance
\* (with two threads the witness is reached: two constructions, two callers
\* holding different instances).
C4_LazySingleThread ==
    (program = "Lazy" /\ Cardinality(Callers) <= 1) =>
        /\ Cardinality(Created) <= 1
        /\ SameNonNull

C4_Witness ==
    /\ program = "Lazy"
    /\ Cardinality(Created) > 1
    /\ \E r1, r2 \in results : r1.thread # r2.thread /\ r1.ptr # r2.ptr

\* C5: Meyers singleton: the instance is constructed exactly once, no caller
\* returns before the construction has completed, and every call returns that
\* same instance.
C5_MeyersOnce ==
    program = "Meyers" =>
        /\ Cardinality(Created) <= 1
        /\ SameNonNull
        /\ \A r \in results : r.complete
        /\ results # {} => Cardinality(Created) = 1

C5_Witness ==
    /\ program = "Meyers"
    /\ overlap
    /\ \A t \in Threads : Returned(t)
    /\ \A t \in Threads : calls[t] = 1

\* C6 as stated: every pointer SmartSingleton::getInstance has returned
\* refers to an instance that is still alive, in every interleaving.
C6_SmartAlwaysAlive ==
    program = "Smart" =>
        \A r \in results : r.ptr # Null /\ heap[r.ptr] = "live"

\* C6 amended: as long as no two getInstance calls have overlapped, every
\* pointer SmartSingleton::getInstance has returned refers to a live instance.
C6_SmartAliveSequential ==
    (program = "Smart" /\ ~overlap) =>
        \A r \in results : r.ptr # Null /\ heap[r.ptr] = "live"

C6_Witness ==
    /\ program = "Smart"
    /\ ~overlap
    /\ \A t \in Threads : Returned(t)

\* C7: lazy loading: while no getInstance call has started, no instance of a
\* lazy variant has been constructed and the instance pointer is null.
C7_LazyLoading ==
    (program \in LazyPrograms /\ Callers = {}) =>
        /\ instance = Null
        /\ Created = {}
        /\ guard = "uninit"

C7_Witness ==
    /\ program \in LazyPrograms
    /\ Callers = {}
    /\ \A t \in Threads : pc[t] = "idle"

(***************************************************************************)
(* Properties of the C++ ShapeFactory                                      *)
(***************************************************************************)
\* C8: ShapeFactory::getShape returns a Circle for exactly the key "circle",
\* a Rectangle for exactly "rectangle", a Square for exactly "square" and a
\* null pointer for every other key, whatever calls were made before.
C8_ShapeFactoryExactKeys ==
    \A i \in 1..Len(shapes) :
        /\ shapes[i].shape = "Circle" <=> shapes[i].key = S_circle
        /\ shapes[i].shape = "Rectangle" <=> shapes[i].key = S_rectangle
        /\ shapes[i].shape = "Square" <=> shapes[i].key = S_square
        /\ shapes[i].shape = "nullptr" <=>
              shapes[i].key \notin {S_circle, S_rectangle, S_square}

C8_Witness ==
    /\ Len(shapes) = 3
    /\ shapes[1] = [key |-> S_Circle, shape |-> "nullptr"]
    /\ shapes[2] = [key |-> S_empty, shape |-> "nullptr"]
    /\ shapes[3] = [key |-> S_circle, shape |-> "Circle"]

(***************************************************************************)
(* Properties of the prototype registry                                    *)
(***************************************************************************)
DefaultOf(key) == IF key = S_orc THEN OrcPrototype ELSE TrollPrototype

LookupKey(type) == IF lang = "java" THEN toLowerCase(type) ELSE type

C9_PrototypesIntact ==
    /\ \A k \in DOMAIN prototypes : enemies[prototypes[k]] = DefaultOf(k)
    /\ clones \cap Values(prototypes) = {}
    /\ (lastCall.op = "getEnemy" /\ lastCall.result # Null) =>
          enemies[lastCall.result] = DefaultOf(LookupKey(lastCall.type))

C9_StepTouchesOneClone ==
    /\ lastCall'.op \in {"setName", "setHealth"} =>
          \A i \in EnemyIds \ {lastCall'.result} : enemies'[i] = enemies[i]
    /\ (lastCall'.op = "getEnemy" /\ lastCall'.result # Null) =>
          /\ lastCall'.result \notin clones
          /\ enemies[lastCall'.result] = NoEnemy
          /\ \A i \in EnemyIds \ {lastCall'.result} : enemies'[i] = enemies[i]

\* C9: clone independence: every getEnemy for a registered key returns a
\* fresh copy holding the prototype's values; after any getEnemy / setName /
\* setHealth calls the registered prototypes still are "Orc Warrior", "Axe",
\* 100 and "Troll Brute", "Club", 150; a setter changes only its own clone.
C9_CloneIndependence ==
    []C9_PrototypesIntact /\ [][C9_StepTouchesOneClone]_vars

C9_Witness ==
    /\ lastCall.op = "getEnemy"
    /\ lastCall.type = S_orc
    /\ lastCall.result # Null
    /\ enemies[lastCall.result] = OrcPrototype
    /\ \E c \in clones \ {lastCall.result} :
          enemies[c] = [OrcPrototype EXCEPT !.name = "Orc Grunt",
                                            !.health = 80]

\* C10 as stated: getEnemy(type) returns null exactly when type is not a key
\* of the registry, and leaves the registry unchanged.
C10_NullIffNotKey ==
    (lastCall.op = "getEnemy" /\ ~lastCall.isNull) =>
        /\ lastCall.result = Null <=> lastCall.type \notin DOMAIN lastCall.reg
        /\ prototypes = lastCall.reg

\* C10 amended: getEnemy(type) returns null exactly when the key it looks up
\* is not in the registry: type itself in C++ (every key before
\* initialize()), type.toLowerCase() in Java, where a null type throws; the
\* call leaves the registry unchanged.
C10_NullIffLookupKeyAbsent ==
    lastCall.op = "getEnemy" =>
        /\ prototypes = lastCall.reg
        /\ lastCall.threw <=> (lang = "java" /\ lastCall.isNull)
        /\ lastCall.threw => lastCall.result = Null
        /\ (lang = "cpp" /\ ~lastCall.isNull) =>
              (lastCall.result = Null <=>
                  lastCall.type \notin DOMAIN lastCall.reg)
        /\ (lang = "java" /\ ~lastCall.isNull) =>
              (lastCall.result = Null <=>
                  toLowerCase(lastCall.type) \notin DOMAIN lastCall.reg)

C10_Witness ==
    /\ lang = "cpp"
    /\ prototypes = EmptyMap
    /\ lastCall.op = "getEnemy"
    /\ lastCall.type = S_orc
    /\ lastCall.result = Null

(***************************************************************************)
(* Properties of the flyweight factories                                   *)
(***************************************************************************)
FlyRequested == {flyCalls[i].key : i \in 1..Len(flyCalls)}

\* C11: flyweight sharing: exactly one flyweight object has been created per
\* distinct key requested so far; two calls return the identical object
\* exactly when their keys are the same.
C11_FlyweightSharing ==
    /\ flyCount = Cardinality(FlyRequested)
    /\ DOMAIN flyMap = FlyRequested
    /\ \A i, j \in 1..Len(flyCalls) :
          (flyCalls[i].key = flyCalls[j].key) <=>
              (flyCalls[i].obj = flyCalls[j].obj)

C11_Witness ==
    /\ Len(flyCalls) = 3
    /\ flyCalls[1].key = "a" /\ flyCalls[2].key = "a" /\ flyCalls[3].key = "b"
    /\ flyCalls[1].obj = flyCalls[2].obj
    /\ flyCalls[3].obj # flyCalls[1].obj
    /\ flyCount = 2

(***************************************************************************)
(* Properties of the flyweight client                                      *)
(***************************************************************************)
RECURSIVE ExpectedLines(_)
ExpectedLines(n) ==
    IF n = 0
    THEN <<>>
    ELSE LET c == IF (n - 1) % 2 = 0 THEN "Red" ELSE "Blue"
         IN  ExpectedLines(n - 1)
                \o (IF n <= 2 THEN <<[kind |-> "Creating", color |-> c]>>
                              ELSE <<>>)
                \o <<[kind |-> "Drawing", color |-> c]>>

C12_SameLinesButCoordinates ==
    \A r, s \in Runs :
        /\ runI[r] \in 0..Iterations
        /\ runOut[r] = ExpectedLines(runI[r])
        /\ runCount[r] = (IF runI[r] < 2 THEN runI[r] ELSE 2)
        /\ runI[r] > 0 => runXY[r].x \in Coords /\ runXY[r].y \in Coords
        /\ runI[r] = runI[s] => runOut[r] = runOut[s]

C12_Terminated == \A r \in Runs : runI[r] = Iterations

C13_NonAdminDenied ==
    /\ \A p \in DocProxies :
          docBuilt[p] /\ docRole[p] # S_Admin =>
              /\ realDocument[p] = Null
              /\ Len(docOut[p]) = docCalls[p]
              /\ \A i \in 1..Len(docOut[p]) : docOut[p][i] = DeniedLine
    /\ docCount =
          Cardinality({p \in DocProxies :
                          docRole[p] = S_Admin /\ docCalls[p] > 0})

C13_Witness ==
    /\ docBuilt["guestView"]
    /\ docRole["guestView"] = S_admin
    /\ docCalls["guestView"] = 2
    /\ docOut["guestView"] = <<DeniedLine, DeniedLine>>
    /\ realDocument["guestView"] = Null
    /\ docRole["adminView"] = S_Admin
    /\ docCount = 1

DocLoads(p) ==
    {i \in 1..Len(docOut[p]) : docOut[p][i].line = "Loading document"}

C14_LoadedOnFirstDisplay ==
    \A p \in DocProxies :
        /\ docBuilt[p] /\ docCalls[p] = 0 =>
              realDocument[p] = Null /\ docOut[p] = <<>>
        /\ docBuilt[p] /\ docRole[p] = S_Admin /\ docCalls[p] > 0 =>
              /\ realDocument[p] # Null
              /\ DocLoads(p) = {1}
              /\ docOut[p][1] = LoadingLine(docFile[p])
              /\ Len(docOut[p]) = docCalls[p] + 1
              /\ \A i \in 2..Len(docOut[p]) :
                    docOut[p][i] = DisplayingLine(docFile[p])

C14_LoadedNeverAgain ==
    \A p \in DocProxies :
        realDocument[p] # Null =>
            /\ realDocument'[p] = realDocument[p]
            /\ DocLoads(p)' = DocLoads(p)

\* C14: constructing a DocumentProxy loads nothing; for an Admin proxy the
\* RealDocument is created, and "Loading document" printed, during the first
\* display() call and never again: over any number of display() calls the
\* document is loaded exactly once, before every "Displaying document".
C14_LazyInitialization ==
    /\ []C14_LoadedOnFirstDisplay
    /\ [][C14_LoadedNeverAgain]_vars

C14_Witness ==
    /\ docRole["adminView"] = S_Admin
    /\ docCalls["adminView"] = 2
    /\ docOut["adminView"] =
          <<LoadingLine("notes.txt"), DisplayingLine("notes.txt"),
            DisplayingLine("notes.txt")>>
    /\ docBuilt["guestView"]
    /\ docCalls["guestView"] = 0

(***************************************************************************)
(* Properties of the Java video downloader proxy                           *)
(***************************************************************************)
C15_AllDenied ==
    \A p \in VidProxies :
        vidBuilt[p] /\ ~hasAccess[p] =>
            /\ cache[p] = {}
            /\ realCalls[p] = <<>>
            /\ Len(vidOut[p]) = Len(vidReq[p])
            /\ \A i \in 1..Len(vidOut[p]) : vidOut[p][i] = AccessDeniedLine

C15_CacheUntouched ==
    \A p \in VidProxies :
        vidBuilt[p] /\ ~hasAccess[p] => cache'[p] = cache[p]

\* C15: for a proxy constructed with hasAccess = false, every
\* downloadVideo(url) call reports access denied, never calls
\* RealVideoDownloader.downloadVideo and leaves the cache unchanged
\* (empty), for any sequence of URLs.
C15_AccessDenial == []C15_AllDenied /\ [][C15_CacheUntouched]_vars

C15_Witness ==
    /\ vidBuilt["unauthorizedDownloader"]
    /\ ~hasAccess["unauthorizedDownloader"]
    /\ vidReq["unauthorizedDownloader"] =
          <<"http://youtube.com/video2", "http://youtube.com/video1",
            "http://youtube.com/video2">>
    /\ vidOut["unauthorizedDownloader"] =
          <<AccessDeniedLine, AccessDeniedLine, AccessDeniedLine>>
    /\ cache["unauthorizedDownloader"] = {}

FirstRequest(p, i) == \A j \in 1..(i - 1) : vidReq[p][j] # vidReq[p][i]

C16_OncePerUrl ==
    \A p \in VidProxies :
        vidBuilt[p] /\ hasAccess[p] =>
            /\ Len(vidOut[p]) = Len(vidReq[p])
            /\ \A i \in 1..Len(vidReq[p]) :
                  vidOut[p][i] =
                      IF FirstRequest(p, i)
                      THEN DownloadingLine(vidReq[p][i])
                      ELSE FetchingLine(vidReq[p][i])
            /\ \A u \in Urls :
                  Cardinality({i \in 1..Len(realCalls[p]) :
                                  realCalls[p][i] = u}) =
                      IF \E i \in 1..Len(vidReq[p]) : vidReq[p][i] = u
                      THEN 1
                      ELSE 0
            /\ cache[p] = {realCalls[p][i] : i \in 1..Len(realCalls[p])}

C16_CacheNeverShrinks ==
    \A p \in VidProxies : vidBuilt[p] => cache[p] \subseteq cache'[p]

\* C16: for a proxy with access, the real downloader is called exactly once
\* per distinct URL, on the first request for it, and every later request
\* for that URL is served from the cache; the cache always equals the set of
\* URLs downloaded so far by that proxy and never shrinks.
C16_Caching == []C16_OncePerUrl /\ [][C16_CacheNeverShrinks]_vars

C16_Witness ==
    /\ vidBuilt["downloader"]
    /\ hasAccess["downloader"]
    /\ vidReq["downloader"] =
          <<"http://youtube.com/video1", "http://youtube.com/video1",
            "http://youtube.com/video2">>
    /\ vidOut["downloader"] =
          <<DownloadingLine("http://youtube.com/video1"),
            FetchingLine("http://youtube.com/video1"),
            DownloadingLine("http://youtube.com/video2")>>
    /\ cache["downloader"] = Urls

(***************************************************************************)
(* Properties of the iterator example                                      *)
(***************************************************************************)
\* C17: a fresh iterator driven by the loop `while hasNext() next()` returns
\* the books of the library in insertion order, each once; hasNext() is
\* true exactly while fewer books have been returned than the library
\* holds, and next() is called once per book and never throws.
C17_LoopTraversal ==
    \A h \in IterHandles :
        iterOf[h] # Null /\ iterLoop[h] =>
            /\ ~iterThrew[h]
            /\ iterIndex[iterOf[h]] = Len(iterRead[h])
            /\ Len(iterRead[h]) <= Len(books)
            /\ iterRead[h] = SubSeq(books, 1, Len(iterRead[h]))
            /\ iterHas[h] = "true" => Len(iterRead[h]) < iterSeen[h]
            /\ iterHas[h] = "false" => Len(iterRead[h]) = iterSeen[h]
            /\ iterHas[h] = "false" /\ iterSeen[h] = Len(books) =>
                  iterRead[h] = books

C17_Witness ==
    /\ books = <<"Design Patterns", "Clean Code">>
    /\ iterLoop["iterator"]
    /\ iterHas["iterator"] = "false"
    /\ iterRead["iterator"] = books
    /\ iterIndex[iterOf["iterator"]] = 2

\* What next() would return through handle g: the book, or out_of_range.
NextResult(g) ==
    IF InRange(iterIndex[iterOf[g]], Len(books))
    THEN books[iterIndex[iterOf[g]] + 1]
    ELSE "out_of_range"

HasNextResult(g) == HasNext(iterIndex[iterOf[g]], Len(books))

\* C18: iterators from separate createIterator() calls have independent
\* positions: a next() call on one iterator changes neither what hasNext()
\* and next() return on another nor the library's contents, whatever calls
\* were made on the two iterators before.
C18_NextTouchesOneIterator ==
    iterLast'.op = "next" =>
        /\ books' = books
        /\ \A g \in IterHandles \ {iterLast'.h} :
              iterOf[g] # Null =>
                  /\ iterOf'[g] = iterOf[g]
                  /\ iterOf[g] # iterOf[iterLast'.h]
                  /\ HasNextResult(g)' = HasNextResult(g)
                  /\ NextResult(g)' = NextResult(g)
                  /\ iterRead'[g] = iterRead[g]

C18_IndependentIterators == [][C18_NextTouchesOneIterator]_vars

C18_Witness ==
    /\ Len(books) = 2
    /\ iterLast = [op |-> "next", h |-> "iterator"]
    /\ iterOf["iterator"] # Null
    /\ iterOf["iterator2"] # Null
    /\ iterIndex[iterOf["iterator"]] = 2
    /\ iterIndex[iterOf["iterator2"]] = 1
    /\ Len(iterRead["iterator"]) = 2
    /\ Len(iterRead["iterator2"]) = 1

(***************************************************************************)
(* Properties of the builder example                                       *)
(***************************************************************************)
\* The value of the last call of `setter` among the first n setter calls,
\* FALSE when there was none.
LastSet(setter, n) ==
    LET calls1 == {k \in 1..n : builderOps[k].setter = setter}
    IN  IF calls1 = {}
        THEN FALSE
        ELSE builderOps[CHOOSE k \in calls1 : \A m \in calls1 : m <= k].value

\* C19: Builder(cpu, ram), any sequence of setGraphicsCard / setBluetooth
\* calls and build() give a Computer whose CPU and RAM are the constructor
\* arguments and whose GraphicsCard and Bluetooth flags are the value of the
\* last call of the corresponding setter, false when it was never called,
\* whatever the order of the calls of different setters.
C19_BuilderResult ==
    /\ builder.made =>
          /\ builder.CPU = builderArgs.cpu
          /\ builder.RAM = builderArgs.ram
          /\ builder.hasGraphicsCard =
                LastSet("setGraphicsCard", Len(builderOps))
          /\ builder.hasBluetooth = LastSet("setBluetooth", Len(builderOps))
    /\ \A i \in DOMAIN computers :
          /\ computers[i].CPU = builderArgs.cpu
          /\ computers[i].RAM = builderArgs.ram
          /\ computers[i].hasGraphicsCard =
                LastSet("setGraphicsCard", builtAt[i])
          /\ computers[i].hasBluetooth =
                LastSet("setBluetooth", builtAt[i])

C19_Witness ==
    /\ builderArgs = [cpu |-> "Intel i9", ram |-> "32GB"]
    /\ builderOps =
          <<[setter |-> "setGraphicsCard", value |-> TRUE],
            [setter |-> "setBluetooth", value |-> TRUE]>>
    /\ Len(computers) = 1
    /\ builtAt[1] = 2
    /\ computers[1].hasGraphicsCard /\ computers[1].hasBluetooth
    /\ printed =
          [CPU |-> "Intel i9", RAM |-> "32GB",
           GraphicsCard |-> "true", Bluetooth |-> "true"]

C20_BuiltNeverChanges ==
    /\ Len(computers') >= Len(computers)
    /\ \A i \in DOMAIN computers : computers'[i] = computers[i]

\* The Computer field a setter writes.
FieldOf(setter) ==
    IF setter = "setGraphicsCard" THEN "hasGraphicsCard" ELSE "hasBluetooth"

C20_OneSetterOneField ==
    \A i, j \in DOMAIN computers :
        builtAt[j] = builtAt[i] + 1 =>
            \A f \in {"CPU", "RAM", "hasGraphicsCard", "hasBluetooth"} :
                f # FieldOf(builderOps[builtAt[j]].setter) =>
                    computers[j][f] = computers[i][f]

\* C20: once build() has returned a Computer, no later operation (setter
\* calls on the same Builder, further build() calls, printing) changes its
\* CPU, RAM, GraphicsCard or Bluetooth value; two Computers built from one
\* Builder before and after one setter call differ only in the field set.
C20_BuiltImmutable ==
    /\ [][C20_BuiltNeverChanges]_vars
    /\ []C20_OneSetterOneField

C20_Witness ==
    /\ Len(computers) = 2
    /\ builtAt = <<0, 1>>
    /\ Len(builderOps) = 2
    /\ builderOps[1] = [setter |-> "setBluetooth", value |-> TRUE]
    /\ builderOps[2] = [setter |-> "setGraphicsCard", value |-> TRUE]
    /\ ~computers[1].hasBluetooth /\ computers[2].hasBluetooth
    /\ ~computers[1].hasGraphicsCard /\ ~computers[2].hasGraphicsCard
    /\ printed = SpecsLine(computers[1])

(***************************************************************************)
(* Properties of the decorator example                                     *)
(***************************************************************************)
\* An amount taken in cents: the nearest whole number of cents.
ToCents(v) == (v + UnitsPerCent \div 2) \div UnitsPerCent

RECURSIVE SumSurcharges(_)
SumSurcharges(wraps) ==
    IF wraps = <<>>
    THEN 0
    ELSE Surcharge(Head(wraps)) + SumSurcharges(Tail(wraps))

\* The chains that hold the same wrappers in another order.
Reorderings(wraps) ==
    LET n == Len(wraps)
        perms == {p \in [1..n -> 1..n] :
                     \A i, j \in 1..n : p[i] = p[j] => i = j}
    IN  {[i \in 1..n |-> wraps[p[i]]] : p \in perms}

\* C21: getDescription() is the base description followed by each
\* decorator's suffix, innermost first; cost(), taken in cents, is the base
\* cost plus the surcharges of all the wrappers; another order of the same
\* wrappers changes the description and not the cost in cents.
C21_DecoratorComposition ==
    bevCost # NoCost =>
        /\ Len(bevDesc) = Len(bevAt) + 1
        /\ bevDesc[1] = BaseDescription(bevBase)
        /\ \A i \in 1..Len(bevAt) : bevDesc[i + 1] = Suffix(bevAt[i])
        /\ ToCents(bevCost) = BaseCents(bevBase) + SumSurcharges(bevAt)
        /\ \A other \in Reorderings(bevAt) :
              /\ \A c \in cost(bevBase, other) : ToCents(c) = ToCents(bevCost)
              /\ other # bevAt =>
                    getDescription(bevBase, other) # bevDesc
        /\ bevBase = "Espresso"
              /\ bevAt = <<"MilkDecorator", "WhipDecorator">> =>
                 /\ bevDesc = <<"Espresso", ", Milk", ", Whip">>
                 /\ ToCents(bevCost) = 279
        /\ bevBase = "SimpleCoffee"
              /\ bevAt = <<"JavaMilkDecorator", "SugarDecorator">> =>
                 /\ bevDesc = <<"Simple Coffee", ", Milk", ", Sugar">>
                 /\ ToCents(bevCost) = 700

C21_Witness ==
    /\ bevBase = "HouseBlend"
    /\ bevAt = <<"WhipDecorator", "MilkDecorator">>
    /\ bevDesc = <<"House Blend Coffee", ", Whip", ", Milk">>
    /\ ToCents(bevCost) = 169
    /\ bevCost # 169 * UnitsPerCent

(***************************************************************************)
(* Properties of the composite example                                     *)
(***************************************************************************)
\* What drawing node n is to print: its first line, its children's output
\* in the order they were added, its last line.
RECURSIVE Drawn(_, _)
RECURSIVE DrawnAll(_, _)
Drawn(l, n) ==
    IF n \in Leaves
    THEN <<LeafLine(l, n)>>
    ELSE <<StartLine(l, n)>> \o DrawnAll(l, children[n]) \o EndLines(l)

DrawnAll(l, kids) ==
    IF kids = <<>>
    THEN <<>>
    ELSE Drawn(l, Head(kids)) \o DrawnAll(l, Tail(kids))

IsStart(line) == line.text \in {"Group Drawing Start:", "Folder: "}

IsEnd(line) == line.text = "Group Drawing End"

Count(P(_), s) == Cardinality({i \in 1..Len(s) : P(s[i])})

\* Every start marker has its end marker after it, and the pairs nest.
Nested(s) ==
    /\ Count(IsStart, s) = Count(IsEnd, s)
    /\ \A k \in 1..Len(s) :
          Count(IsStart, SubSeq(s, 1, k)) >= Count(IsEnd, SubSeq(s, 1, k))

\* C22 as stated: in both versions the finished output has an end marker
\* for every start marker, properly nested.
C22_MarkersNested == compPhase = "done" => Nested(compOut)

\* Number of containment paths from node n down to leaf x.
RECURSIVE Paths(_, _)
RECURSIVE PathsAll(_, _)
Paths(n, x) ==
    IF n = x THEN 1 ELSE IF n \in Leaves THEN 0 ELSE PathsAll(children[n], x)

PathsAll(kids, x) ==
    IF kids = <<>> THEN 0 ELSE Paths(Head(kids), x) + PathsAll(Tail(kids), x)

LinesOf(x) == {i \in 1..Len(compOut) : compOut[i] = LeafLine(compLang, x)}

CppStart == [text |-> "Group Drawing Start:", name |-> ""]

CppEnd == [text |-> "Group Drawing End", name |-> ""]

CppCircle == [text |-> "Drawing Circle", name |-> ""]

CppRectangle == [text |-> "Drawing Rectangle", name |-> ""]

DemoTree ==
    /\ children["group1"] = <<"circle1", "rect1">>
    /\ children["group2"] = <<"circle1", "group1">>
    /\ compRoot = "group2"

\* C22 (amended): a finished draw() / showDetails() has printed the node's
\* first line, then its children in the order they were added, nested
\* groups depth-first, every leaf once per containment path; Group::draw
\* (C++) closes each group with its end line, so that start and end lines
\* nest, while Folder.showDetails (Java) prints no end line.
C22_CompositeTraversal ==
    compPhase = "done" =>
        /\ compOut = Drawn(compLang, compRoot)
        /\ \A x \in Leaves : Cardinality(LinesOf(x)) = Paths(compRoot, x)
        /\ compLang = "cpp" => Nested(compOut)
        /\ compLang = "java" => Count(IsEnd, compOut) = 0
        /\ compLang = "cpp" /\ DemoTree =>
              compOut = <<CppStart, CppCircle, CppStart, CppCircle,
                          CppRectangle, CppEnd, CppEnd>>

C22_Witness ==
    /\ compPhase = "done"
    /\ compLang = "cpp"
    /\ DemoTree
    /\ Len(compOut) = 7

GroupKids(g) == {children[g][i] : i \in 1..Len(children[g])} \cap Groups

\* The groups reached from the groups S in one to k containment steps.
RECURSIVE Descend(_, _)
Descend(S, k) ==
    IF k = 0
    THEN {}
    ELSE LET below == UNION {GroupKids(g) : g \in S}
         IN  below \cup Descend(below, k - 1)

\* No group is added, directly or transitively, to itself.
Acyclic == \A g \in Groups : g \notin Descend({g}, Cardinality(Groups))

C30_FinitelyManyLines ==
    Acyclic =>
        /\ compPhase # "overflow"
        /\ compPhase \in {"draw", "done"} =>
              Len(compOut) <= Len(Drawn(compLang, compRoot))

C30_DrawKeepsChildren == compPhase' # "build" => children' = children

\* C30: in a structure in which no group is added, directly or
\* transitively, to itself, draw() / showDetails() on any node ends after
\* printing finitely many lines, and the operation never modifies a
\* group's child list.
C30_CompositeTermination ==
    /\ []C30_FinitelyManyLines
    /\ [][C30_DrawKeepsChildren]_vars
    /\ (compPhase = "draw" /\ Acyclic) ~> (compPhase = "done")

C30_Witness ==
    /\ compPhase = "done"
    /\ compLang = "java"
    /\ Acyclic
    /\ compRoot = "group2"
    /\ children["group2"] = <<"group1", "circle1">>
    /\ children["group1"] = <<"rect1", "rect1">>
    /\ Len(compOut) = 5

(***************************************************************************)
(* Properties of the abstract factory example                              *)
(***************************************************************************)
WindowsFamily ==
    {"WindowsFactory", "WindowsButton", "WindowsCheckbox",
     "Rendering Windows Button", "Rendering Windows Checkbox"}

\* The family of a factory, a product class or a console line.
FamilyOf(x) == IF x \in WindowsFamily THEN "Windows" ELSE "Mac"

ButtonLines == {"Rendering Windows Button", "Rendering Mac Button"}

CheckboxLines == {"Rendering Windows Checkbox", "Rendering Mac Checkbox"}

\* C23: an Application holds a button and a checkbox of the family of the
\* factory it was constructed from; every renderUI renders the button and
\* then the checkbox, both of that family, never a mixed pair.
C23_FamilyConsistency ==
    /\ \A a \in GuiApps :
          guiFactory[a] # "" =>
              /\ guiButton[a] \in {"WindowsButton", "MacButton"}
              /\ guiCheckbox[a] \in {"WindowsCheckbox", "MacCheckbox"}
              /\ FamilyOf(guiButton[a]) = FamilyOf(guiFactory[a])
              /\ FamilyOf(guiCheckbox[a]) = FamilyOf(guiFactory[a])
    /\ Len(guiOut) % 2 = 0
    /\ \A k \in 1..(Len(guiOut) \div 2) :
          LET b == guiOut[2 * k - 1]
              c == guiOut[2 * k]
          IN  /\ b.app = c.app
              /\ b.line \in ButtonLines
              /\ c.line \in CheckboxLines
              /\ FamilyOf(b.line) = FamilyOf(guiFactory[b.app])
              /\ FamilyOf(c.line) = FamilyOf(b.line)

C23_Witness ==
    /\ guiFactory["app"] = "WindowsFactory"
    /\ guiFactory["app2"] = "MacFactory"
    /\ guiOut =
          <<[app |-> "app", line |-> "Rendering Windows Button"],
            [app |-> "app", line |-> "Rendering Windows Checkbox"],
            [app |-> "app2", line |-> "Rendering Mac Button"],
            [app |-> "app2", line |-> "Rendering Mac Checkbox"]>>

(***************************************************************************)
(* Properties of the Liskov substitution example                           *)
(***************************************************************************)
HasOstrich == \E i \in 1..Len(flock) : flock[i] = "Ostrich"

\* C24: fly() called through Bird on an Ostrich ends with the logic_error
\* "Ostrich can't fly" and prints nothing; on a Bird or a Crow it prints
\* "Flying" and returns; a loop calling fly() on every bird of a collection
\* completes normally exactly when the collection holds no Ostrich.
C24_OstrichThrows ==
    /\ flyOut = [i \in 1..flyPos |-> "Flying"]
    /\ \A i \in 1..flyPos : flock[i] \in {"Bird", "Crow"}
    /\ flyState = "thrown" =>
          /\ flock[flyPos + 1] = "Ostrich"
          /\ flyError = "Ostrich can't fly"
    /\ flyState = "completed" => flyPos = Len(flock) /\ flyError = ""
    /\ flyState \in {"completed", "thrown"} =>
          (flyState = "completed" <=> ~HasOstrich)

C24_Witness ==
    /\ flock = <<"Crow", "Ostrich", "Bird">>
    /\ flyState = "thrown"
    /\ flyOut = <<"Flying">>
    /\ flyError = "Ostrich can't fly"

(***************************************************************************)
(* Further properties of the lock-based singletons                         *)
(***************************************************************************)
InLockedSection == {"check2", "new", "ctor", "store", "store_early",
                    "ctor_late", "unlock"}

\* A getInstance call of thread t is at its first statement and the
\* instance has been assigned: the call goes straight to `return instance`
\* and the mutex stays as it is.
C25_FastPathStep ==
    \A t \in Threads :
        /\ program \in {"DCL", "DCLJava"}
        /\ instance # Null
        /\ pc[t] = "check1"
        /\ pc'[t] # pc[t]
        => pc'[t] = "ret" /\ mtx' = mtx

C25_AssignedForGood ==
    program \in {"DCL", "DCLJava", "ThreadSafe"} /\ instance # Null =>
        instance' = instance

\* A DCLSingleton call heads for the mutex only from a first check that
\* found instance null.
C25_SlowPathStep ==
    \A t \in Threads :
        /\ program \in {"DCL", "DCLJava"}
        /\ pc'[t] = "lock"
        /\ pc[t] # "lock"
        => pc[t] = "check1" /\ instance = Null

\* The mutex is held exactly inside the locked section; a
\* ThreadSafeSingleton call holds it from its first statement to its
\* return.
C25_WhoHoldsTheMutex ==
    \A t \in Threads :
        /\ program \in {"DCL", "DCLJava"} =>
              (mtx = t <=> pc[t] \in InLockedSection)
        /\ program = "ThreadSafe" =>
              (mtx = t <=> pc[t] \in {"check", "new", "ret"})

\* C25: once instance has been assigned, every DCLSingleton::getInstance
\* call that starts afterwards returns the instance without acquiring the
\* mutex; the mutex is acquired only by calls that began before that,
\* whereas ThreadSafeSingleton::getInstance acquires it on every call.
C25_DCLFastPath ==
    /\ []C25_WhoHoldsTheMutex
    /\ [][C25_FastPathStep /\ C25_SlowPathStep /\ C25_AssignedForGood]_vars

C25_Witness ==
    /\ program = "DCL"
    /\ instance # Null
    /\ \E t, u \in Threads :
          /\ pc[t] = "unlock" /\ mtx = t
          /\ pc[u] = "ret" /\ calls[u] = 1
          /\ \A r \in results : r.thread # u

(***************************************************************************)
(* Properties of the Java ShapeFactory                                     *)
(***************************************************************************)
\* C26: ShapeFactory.getShape (Java) returns null for a null shapeType
\* without throwing; for a string whose lower-cased form is "circle",
\* "rectangle" or "square", in any letter case, it returns that shape; for
\* every other string it returns null.  The C++ factory returns no shape
\* for the same keys unless they are in lower case.
C26_JavaGetShape ==
    \A i \in 1..Len(jshapes) :
        LET arg == jshapes[i].arg
            got == jshapes[i].got
        IN  /\ ~got.threw
            /\ arg.isNull => got.shape = "null"
            /\ ~arg.isNull =>
                  /\ got.shape = "Circle" <=>
                        arg.chars \in {S_circle, S_Circle, S_CIRCLE}
                  /\ got.shape = "Rectangle" <=> arg.chars = S_rectangle
                  /\ got.shape = "Square" <=>
                        arg.chars \in {S_square, S_Square, S_SQUARE}
                  /\ got.shape = "null" <=>
                        arg.chars \in {S_triangle, S_empty}
                  /\ got.shape # "null" /\ arg.chars # toLowerCase(arg.chars)
                        => getShape(arg.chars) = "nullptr"

C26_Witness ==
    /\ Len(jshapes) = 3
    /\ jshapes[1].arg = NullString /\ jshapes[1].got.shape = "null"
    /\ jshapes[2].arg = StringOf(S_CIRCLE)
    /\ jshapes[2].got.shape = "Circle"
    /\ jshapes[3].arg = StringOf(S_triangle)
    /\ jshapes[3].got.shape = "null"

(***************************************************************************)
(* Properties of the home theater facade                                   *)
(***************************************************************************)
Subsystems == {"dvd", "projector", "amp"}

\* The steps of a call that act on a subsystem, in order.
DeviceSteps(steps) == SelectSeq(steps, LAMBDA s : s.dev \in Subsystems)

\* Whether the subsystem is on after the first n facade calls: decided by
\* the last on() or off() it received; off before any.
RECURSIVE PoweredAfter(_, _)
PoweredAfter(dev, n) ==
    IF n = 0 THEN FALSE
    ELSE LET sw == SelectSeq(facCalls[n].steps,
                       LAMBDA s : s.dev = dev /\ s.op \in {"on", "off"})
         IN  IF sw = <<>> THEN PoweredAfter(dev, n - 1)
             ELSE sw[Len(sw)].op = "on"

C27_WatchMovieOrder(steps) ==
    /\ \A j \in 1..Len(steps) :
          steps[j].dev \in Subsystems /\ steps[j].op # "on" =>
              \E i \in 1..(j - 1) :
                  steps[i].dev = steps[j].dev /\ steps[i].op = "on"
    /\ \E j \in 1..Len(steps) : steps[j].op \in {"wideScreenMode", "setInput"}
    /\ \E j \in 1..Len(steps) :
          steps[j] = Step("amp", "setVolume", "5")
    /\ steps[Len(steps)].dev = "dvd" /\ steps[Len(steps)].op = "play"
    /\ steps[Len(steps)].arg \in Movies
    /\ \A j \in 1..(Len(steps) - 1) : steps[j].op # "play"

C27_EndMovieOrder(steps) ==
    LET ds == DeviceSteps(steps)
    IN  /\ Len(ds) = 3
        /\ \A j \in 1..3 : ds[j].op = "off"
        /\ {ds[j].dev : j \in 1..3} = Subsystems
        /\ ds[1].dev = "dvd"

\* C27: in watchMovie every subsystem is switched on before it is
\* configured or used and play(movie) is the last step; endMovie switches
\* off the three subsystems, the DVD player first, and calls nothing else
\* on them; after an endMovie (in particular after watchMovie followed by
\* endMovie) every subsystem is off.
C27_FacadeSequencing ==
    \A n \in 1..Len(facCalls) :
        /\ facCalls[n].method = "watchMovie" =>
              /\ C27_WatchMovieOrder(facCalls[n].steps)
              /\ \A dev \in Subsystems : PoweredAfter(dev, n)
        /\ facCalls[n].method = "endMovie" =>
              /\ C27_EndMovieOrder(facCalls[n].steps)
              /\ \A dev \in Subsystems : ~PoweredAfter(dev, n)

C27_Witness ==
    /\ Len(facCalls) = 2
    /\ facCalls[1].method = "watchMovie"
    /\ facCalls[1].steps[7] = Step("dvd", "play", "Inception")
    /\ facCalls[2].method = "endMovie"
    /\ \A dev \in Subsystems : ~PoweredAfter(dev, 2)

(***************************************************************************)
(* Termination of the lock-based singletons                                *)
(***************************************************************************)
LockBased == {"ThreadSafe", "DCL", "DCLJava"}

\* A thread that holds the mutex is inside a getInstance call, and in
\* DCLSingleton it has not yet reached `return instance`; so the mutex is
\* free whenever no call is in progress.
C28_MutexFreeOutsideCalls ==
    program \in LockBased =>
        /\ \A t \in Threads :
              mtx = t => /\ pc[t] # "idle"
                         /\ program # "ThreadSafe" => pc[t] # "ret"
        /\ (\A t \in Threads : pc[t] = "idle") => mtx = NoThread

\* The step that leaves the critical section releases the mutex, whether
\* or not the call found the instance already there.
C28_ReleasedOnTheWayOut ==
    \A t \in Threads :
        /\ program \in LockBased
        /\ mtx = t
        /\ \/ pc'[t] = "idle"
           \/ program # "ThreadSafe" /\ pc'[t] = "ret"
        => mtx' = NoThread

\* C28: under a fair scheduler every call of ThreadSafeSingleton::getInstance
\* or DCLSingleton::getInstance eventually returns; the mutex is released on
\* every path out of the critical section and is free whenever no call is
\* in progress.
C28_NoDeadlock ==
    /\ []C28_MutexFreeOutsideCalls
    /\ [][C28_ReleasedOnTheWayOut]_vars
    /\ \A t \in Threads :
          (program \in LockBased /\ pc[t] # "idle") ~> (pc[t] = "idle")

\* Both threads have called getInstance twice and every call has returned:
\* the later calls found the instance already there.
C28_Witness ==
    /\ program \in {"ThreadSafe", "DCL"}
    /\ instance # Null
    /\ \A t \in Threads : calls[t] >= 2 /\ pc[t] = "idle"
    /\ overlap
    /\ mtx = NoThread

(***************************************************************************)
(* Exhausted iterators                                                     *)
(***************************************************************************)
NextOps == {"next", "nextUntilHasNext"}

\* A step of next() calls through a handle whose hasNext() is false: no book
\* is returned, the calls end in the out-of-range error, the library is
\* unchanged and hasNext() is false afterwards.
C29_ExhaustedNext ==
    \A h \in IterHandles :
        /\ iterLast'.op \in NextOps /\ iterLast'.h = h
        /\ iterOf[h] # Null
        /\ ~HasNextResult(h)
        => /\ iterThrew'[h]
           /\ iterRead'[h] = iterRead[h]
           /\ books' = books
           /\ ~HasNextResult(h)'

\* C29: next() on an iterator whose hasNext() is false never returns a book;
\* it ends in an out-of-range error, the library is unchanged, and hasNext()
\* still returns false afterwards as long as no book is added.
C29_IteratorExhaustion == [][C29_ExhaustedNext]_vars

\* The part that holds: a single next() call on an exhausted iterator
\* throws, returns no book and leaves the library alone; hasNext() is false
\* afterwards unless index was at IntMax.
C29_ExhaustedNextOnce ==
    \A h \in IterHandles :
        /\ iterLast'.op = "next" /\ iterLast'.h = h
        /\ iterOf[h] # Null
        /\ ~HasNextResult(h)
        => /\ iterThrew'[h]
           /\ iterRead'[h] = iterRead[h]
           /\ books' = books
           /\ ~HasNextResult(h)'

C29_SingleCallExhaustion == [][C29_ExhaustedNextOnce]_vars

\* hasNext() answers true over an empty library.
C29_Overflowed ==
    /\ books = <<>>
    /\ iterOf["iterator"] # Null
    /\ iterThrew["iterator"]
    /\ iterHas["iterator"] = "true"

====
